---- MODULE Spec2Model ----
(***************************************************************************)
(* A state-machine model of the reconciler excerpts of react-notes:        *)
(* the fiber double buffer (ReactFiber.js), the class update queue         *)
(* (ReactFiberClassUpdateQueue, src/unnamed/part_001), the concurrent      *)
(* update staging array (ReactFiberConcurrentUpdates.js), the work loop    *)
(* (ReactFiberWorkLoop.js) and the root scheduler                          *)
(* (ReactFiberRootScheduler.js).                                           *)
(*                                                                         *)
(* Objects live in heaps: fibers, queues, shareds and updates are          *)
(* sequences indexed by object identity, Null (0) is the null pointer.     *)
(* Every function of the source is an operator from a world record (all    *)
(* heaps and module globals) to a world record; an action applies one      *)
(* top-level entry point to the current world.                             *)
(***************************************************************************)
EXTENDS Integers, Sequences, FiniteSets, TLC

VARIABLES
    fibers,     \* heap of FiberNode objects
    queues,     \* heap of UpdateQueue objects
    shareds,    \* heap of SharedQueue objects (queue.shared)
    updates,    \* heap of Update objects
    cu,         \* ReactFiberConcurrentUpdates module state
    cq,         \* ReactFiberClassUpdateQueue module state
    wl,         \* ReactFiberWorkLoop module state
    roots,      \* heap of FiberRootNode objects
    rs,         \* ReactFiberRootScheduler module state
    env,        \* host, Scheduler and thenables (external collaborators)
    gh          \* history of the run (inputs given, calls made)

vars == <<fibers, queues, shareds, updates, cu, cq, wl, roots, rs, env, gh>>

(***************************************************************************)
(* Bounds of the model.                                                    *)
(***************************************************************************)
MaxUpdates == 3
MaxRenders == 3
MaxFiberUpdates == 3
MaxFiberRenders == 4
MaxLoopUpdates == 2
MaxLiveUpdates == 3
MaxTime == 3
MaxSlice == 2
MaxFibers == 14
MaxHeapUpdates == 16

Null == 0

(***************************************************************************)
(* Bit masks (flags and lanes are JavaScript 31-bit masks).                *)
(***************************************************************************)
RECURSIVE BitAnd(_, _)
BitAnd(a, b) ==
    IF a = 0 \/ b = 0 THEN 0
    ELSE (a % 2) * (b % 2) + 2 * BitAnd(a \div 2, b \div 2)

RECURSIVE BitOr(_, _)
BitOr(a, b) ==
    IF a = 0 THEN b
    ELSE IF b = 0 THEN a
    ELSE (IF a % 2 = 1 \/ b % 2 = 1 THEN 1 ELSE 0) + 2 * BitOr(a \div 2, b \div 2)

BitAndNot(a, b) == a - BitAnd(a, b)

(***************************************************************************)
(* ReactFiberFlags.js                                                      *)
(***************************************************************************)
NoFlags == 0
PerformedWork == 1
Placement == 2
DidCapture == 128
Hydrating == 4096
Update == 4
Cloned == 8
ChildDeletion == 16
ContentReset == 32
Callback == 64
ForceClientRender == 256
Ref == 512
Snapshot == 1024
Passive == 2048
Visibility == 8192
StoreConsistency == 16384
\* lines 152-157: flags declared as aliases of other flags
ScheduleRetry == StoreConsistency
ShouldSuspendCommit == Visibility
ViewTransitionNamedMount == ShouldSuspendCommit
DidDefer == ContentReset
FormReset == Snapshot
AffectedParentLayout == ContentReset
Incomplete == 32768
ShouldCapture == 65536
ForceUpdateForLegacySuspense == 131072
DidPropagateContext == 262144
NeedsPropagation == 524288
Forked == 1048576
SnapshotStatic == 2097152
LayoutStatic == 4194304
RefStatic == LayoutStatic
PassiveStatic == 8388608
MaySuspendCommit == 16777216
ViewTransitionNamedStatic == BitOr(SnapshotStatic, MaySuspendCommit)
ViewTransitionStatic == 33554432
\* lines 283 and 290: the literal of MountLayoutDev has thirty digits
PlacementDEV == 67108864
MountLayoutDev == 67108864

\* The flag constants that are not declared as an alias of another flag,
\* by name (NoFlags is no flag; the masks are unions).
FlagBits ==
    [PerformedWork |-> PerformedWork, Placement |-> Placement,
     DidCapture |-> DidCapture, Hydrating |-> Hydrating, Update |-> Update,
     Cloned |-> Cloned, ChildDeletion |-> ChildDeletion,
     ContentReset |-> ContentReset, Callback |-> Callback,
     ForceClientRender |-> ForceClientRender, Ref |-> Ref,
     Snapshot |-> Snapshot, Passive |-> Passive, Visibility |-> Visibility,
     StoreConsistency |-> StoreConsistency, Incomplete |-> Incomplete,
     ShouldCapture |-> ShouldCapture,
     ForceUpdateForLegacySuspense |-> ForceUpdateForLegacySuspense,
     DidPropagateContext |-> DidPropagateContext,
     NeedsPropagation |-> NeedsPropagation, Forked |-> Forked,
     SnapshotStatic |-> SnapshotStatic, LayoutStatic |-> LayoutStatic,
     PassiveStatic |-> PassiveStatic, MaySuspendCommit |-> MaySuspendCommit,
     ViewTransitionStatic |-> ViewTransitionStatic,
     PlacementDEV |-> PlacementDEV, MountLayoutDev |-> MountLayoutDev]

StaticMask ==
    BitOr(LayoutStatic,
    BitOr(PassiveStatic,
    BitOr(RefStatic,
    BitOr(MaySuspendCommit,
    BitOr(ViewTransitionStatic, ViewTransitionNamedStatic)))))

(***************************************************************************)
(* Lanes.  ReactFiberLane is imported by the sources but is not part of    *)
(* them; the lane classes are those of the specification (section 4.1),    *)
(* one bit per class, lower bit = higher priority.                         *)
(***************************************************************************)
NoLane == 0
NoLanes == 0
SyncLane == 1
DefaultLane == 2
TransitionLane == 4
OffscreenLane == 8

mergeLanes(a, b) == BitOr(a, b)
removeLanes(set, subset) == BitAndNot(set, subset)
intersectLanes(a, b) == BitAnd(a, b)
isSubsetOfLanes(set, subset) == BitAnd(set, subset) = subset
includesSomeLane(a, b) == BitAnd(a, b) # NoLanes

\* The lowest set bit.
RECURSIVE getHighestPriorityLane(_)
getHighestPriorityLane(lanes) ==
    IF lanes = 0 THEN NoLane
    ELSE IF lanes % 2 = 1 THEN 1
    ELSE 2 * getHighestPriorityLane(lanes \div 2)

(***************************************************************************)
(* Execution context bits (ReactFiberWorkLoop).                            *)
(***************************************************************************)
NoContext == 0
RenderContext == 2
CommitContext == 4
\* the context of batchedUpdates (specification 6: the wrappers that adjust
\* the executionContext bitmask)
BatchedContext == 1

(***************************************************************************)
(* Work tags used by the model.                                            *)
(***************************************************************************)
HostRoot == 3
HostComponent == 5

(***************************************************************************)
(* Update tags (part_001, lines 21-24).                                    *)
(***************************************************************************)
UpdateState == 0
ReplaceState == 1
ForceUpdate == 2
CaptureUpdate == 3

(***************************************************************************)
(* State values.  A component state is an object with the two fields a     *)
(* and b; Undef marks an absent field, NullObj is null.  A payload is an   *)
(* object (a partial state) or the name of an updater function.            *)
(***************************************************************************)
\* null, for the slots that hold a thrown value or a status name.
NoValue == ""

Undef == -1
NullObj == [a |-> -2, b |-> -2]
Obj(x, y) == [a |-> x, b |-> y]

\* Object.assign({}, prev, partial): fields of partial overwrite those of prev.
assign(prev, partial) ==
    LET p == IF prev = NullObj THEN Obj(Undef, Undef) ELSE prev
        q == IF partial = NullObj THEN Obj(Undef, Undef) ELSE partial
    IN  [a |-> IF q.a # Undef THEN q.a ELSE p.a,
         b |-> IF q.b # Undef THEN q.b ELSE p.b]

ObjPayload(o) == [fn |-> "", obj |-> o]
FnPayload(name) == [fn |-> name, obj |-> NullObj]
NullPayload == ObjPayload(NullObj)

\* payload.call(instance, prevState, nextProps) for the updater functions
\* the model's producers use.
\*   toggle:  prev => ({a: prev.a === 0 ? 1 : 0})
\*   copy:    prev => ({b: prev.a})          (null when prev.a is absent)
\*   nothing: () => null
CallPayload(name, prevState, nextProps) ==
    CASE name = "toggle" ->
            Obj(IF prevState # NullObj /\ prevState.a = 0 THEN 1 ELSE 0, Undef)
      [] name = "copy" ->
            IF prevState = NullObj \/ prevState.a = Undef THEN NullObj
            ELSE Obj(Undef, prevState.a)
      [] OTHER -> NullObj

(***************************************************************************)
(* The world: every heap and every module's globals, as one record.        *)
(***************************************************************************)
World ==
    [fibers |-> fibers, queues |-> queues, shareds |-> shareds,
     updates |-> updates, cu |-> cu, cq |-> cq, wl |-> wl, roots |-> roots,
     rs |-> rs, env |-> env, gh |-> gh]

Becomes(w) ==
    /\ fibers' = w.fibers
    /\ queues' = w.queues
    /\ shareds' = w.shareds
    /\ updates' = w.updates
    /\ cu' = w.cu
    /\ cq' = w.cq
    /\ wl' = w.wl
    /\ roots' = w.roots
    /\ rs' = w.rs
    /\ env' = w.env
    /\ gh' = w.gh

\* The state is the world w (for initial states).
Is(w) ==
    /\ fibers = w.fibers
    /\ queues = w.queues
    /\ shareds = w.shareds
    /\ updates = w.updates
    /\ cu = w.cu
    /\ cq = w.cq
    /\ wl = w.wl
    /\ roots = w.roots
    /\ rs = w.rs
    /\ env = w.env
    /\ gh = w.gh

\* The result of a call: the world it leaves and the value it returns.
Ret(w, v) == [w |-> w, ret |-> v]

\* The element of a singleton.  The({ e(x) : x \in {v} }) is e(v), with v
\* computed once however often e uses it.
The(S) == CHOOSE x \in S : TRUE

(***************************************************************************)
(* ReactFiber.js: FiberNode, createFiber, createWorkInProgress.            *)
(* Fields no operation of the model reads (key, elementType, mode, ref,    *)
(* refCleanup, dependencies, profiler durations) are left out.             *)
(***************************************************************************)
\* fiber.deletions: null, or the array of the children to delete.
NoDeletions == <<>>

FiberNode(tag, pendingProps) ==
    [tag |-> tag, type |-> Null, stateNode |-> Null,
     return |-> Null, child |-> Null, sibling |-> Null, index |-> 0,
     pendingProps |-> pendingProps, memoizedProps |-> Null,
     updateQueue |-> Null, memoizedState |-> NullObj,
     flags |-> NoFlags, subtreeFlags |-> NoFlags, deletions |-> NoDeletions,
     lanes |-> NoLanes, childLanes |-> NoLanes,
     alternate |-> Null]

\* new FiberNode(...): the new object's identity is the next heap index.
createFiber(w, tag, pendingProps) ==
    Ret([w EXCEPT !.fibers = Append(w.fibers, FiberNode(tag, pendingProps))],
        Len(w.fibers) + 1)

\* Mutant: the new fiber points at current, current does not point back.
linkAlternates_OneWay(w, current, workInProgress) ==
    [w EXCEPT !.fibers[workInProgress].alternate = current]

\* ReactFiber.js, lines 103-104.
linkAlternates(w, current, workInProgress) ==
    [w EXCEPT !.fibers[workInProgress].alternate = current,
              !.fibers[current].alternate = workInProgress]

\* Mutant: the reused alternate keeps the subtree effects and the deletions
\* of the render it was last used in.
resetEffects_Keep(w, workInProgress) ==
    [w EXCEPT !.fibers[workInProgress].flags = NoFlags]

\* Mutant: the effects of the current fiber are reset as well.
resetEffects_BothFibers(w, workInProgress) ==
    LET current == w.fibers[workInProgress].alternate
    IN  [w EXCEPT !.fibers[workInProgress].flags = NoFlags,
                  !.fibers[workInProgress].subtreeFlags = NoFlags,
                  !.fibers[workInProgress].deletions = NoDeletions,
                  !.fibers[current].flags = NoFlags,
                  !.fibers[current].subtreeFlags = NoFlags]

\* ReactFiber.js, lines 113-115.
resetEffects(w, workInProgress) ==
    [w EXCEPT !.fibers[workInProgress].flags = NoFlags,
              !.fibers[workInProgress].subtreeFlags = NoFlags,
              !.fibers[workInProgress].deletions = NoDeletions]

\* Mutant: every flag of current is carried over.
staticFlagsOf_All(flags) == flags

\* ReactFiber.js, line 133: current.flags & StaticMask.
staticFlagsOf(flags) == BitAnd(flags, StaticMask)

createWorkInProgress(w, current, pendingProps) ==
    LET cur == w.fibers[current]
        alt == cur.alternate
        workInProgress == IF alt = Null THEN Len(w.fibers) + 1 ELSE alt
        \* branch 1: no alternate yet, allocate and wire both ways;
        \* branch 2: reuse the alternate, reset its effects.
        Branch(made) ==
            IF alt = Null
            THEN linkAlternates(
                   [made.w EXCEPT
                      !.fibers[made.ret].type = cur.type,
                      !.fibers[made.ret].stateNode = cur.stateNode],
                   current, made.ret)
            ELSE resetEffects(
                   [w EXCEPT
                      !.fibers[alt].pendingProps = pendingProps,
                      !.fibers[alt].type = cur.type],
                   alt)
        Copy(w1, c) ==
            [w1 EXCEPT
               !.fibers[workInProgress].flags = staticFlagsOf(c.flags),
               !.fibers[workInProgress].childLanes = c.childLanes,
               !.fibers[workInProgress].lanes = c.lanes,
               !.fibers[workInProgress].child = c.child,
               !.fibers[workInProgress].memoizedProps = c.memoizedProps,
               !.fibers[workInProgress].memoizedState = c.memoizedState,
               !.fibers[workInProgress].updateQueue = c.updateQueue,
               !.fibers[workInProgress].sibling = c.sibling,
               !.fibers[workInProgress].index = c.index]
        \* what the caller finds on return
        Seen(w2) ==
            [current |-> current, workInProgress |-> workInProgress,
             reused |-> alt # Null,
             hadSubtreeFlags |-> IF alt = Null THEN NoFlags
                                 ELSE w.fibers[alt].subtreeFlags,
             hadDeletions |-> IF alt = Null THEN NoDeletions
                              ELSE w.fibers[alt].deletions,
             currentFlags |-> w2.fibers[current].flags,
             flags |-> w2.fibers[workInProgress].flags,
             subtreeFlags |-> w2.fibers[workInProgress].subtreeFlags,
             deletions |-> w2.fibers[workInProgress].deletions,
             alternate |-> w2.fibers[workInProgress].alternate,
             currentAlternate |-> w2.fibers[current].alternate]
    IN  The({ Ret([w2 EXCEPT !.gh.created = @ \cup {Seen(w2)}], workInProgress) :
              w2 \in { Copy(w1, w1.fibers[current]) :
                       w1 \in {Branch(createFiber(w, cur.tag, pendingProps))} } })

(***************************************************************************)
(* ReactFiberClassUpdateQueue (src/unnamed/part_001).                      *)
(* An Update carries one field the source does not have: src, the          *)
(* identity of the update a clone was made from (its own identity for an   *)
(* update made by createUpdate).  No operation reads it; the history does. *)
(***************************************************************************)
initializeUpdateQueue(w, fiber) ==
    LET shared == [pending |-> Null, lanes |-> NoLanes, hiddenCallbacks |-> Null]
        sid == Len(w.shareds) + 1
        queue == [baseState |-> w.fibers[fiber].memoizedState,
                  firstBaseUpdate |-> Null,
                  lastBaseUpdate |-> Null,
                  shared |-> sid,
                  callbacks |-> <<>>]
        qid == Len(w.queues) + 1
    IN  [w EXCEPT !.shareds = Append(w.shareds, shared),
                  !.queues = Append(w.queues, queue),
                  !.fibers[fiber].updateQueue = qid]

createUpdate(w, lane) ==
    LET id == Len(w.updates) + 1
        update == [lane |-> lane, tag |-> UpdateState, payload |-> NullPayload,
                   callback |-> Null, next |-> Null, src |-> id]
    IN  Ret([w EXCEPT !.updates = Append(w.updates, update)], id)

\* Mutant: an update made while rendering is staged like any other.
isUnsafeClassRenderPhaseUpdate_Never(w, fiber) == FALSE

isUnsafeClassRenderPhaseUpdate(w, fiber) ==
    BitAnd(w.wl.executionContext, RenderContext) # NoContext

(***************************************************************************)
(* ReactFiberConcurrentUpdates.js                                          *)
(***************************************************************************)
\* concurrentQueues holds one record per staged update (the source keeps
\* the four values flat in one array, concurrentQueuesIndex = 4 * Len).
\* hidden is the producer-side fact that the fiber sits in a hidden
\* Offscreen tree; it is consulted when the staged update is linked.
\* Mutant: the lane is not merged into the alternate's lanes.
concurrentEnqueueUpdate_NoAlternate(w, fiber, queue, update, lane) ==
    [w EXCEPT
       !.cu.concurrentQueues =
           Append(@, [fiber |-> fiber, queue |-> queue,
                      update |-> update, lane |-> lane]),
       !.cu.concurrentlyUpdatedLanes = mergeLanes(@, lane),
       !.fibers[fiber].lanes = mergeLanes(@, lane)]

\* Mutant: the lane is merged into the alternate's childLanes too.
concurrentEnqueueUpdate_MarksAlternateChildLanes(w, fiber, queue, update, lane) ==
    LET alternate == w.fibers[fiber].alternate
        w1 == [w EXCEPT
                 !.cu.concurrentQueues =
                     Append(@, [fiber |-> fiber, queue |-> queue,
                                update |-> update, lane |-> lane]),
                 !.cu.concurrentlyUpdatedLanes = mergeLanes(@, lane),
                 !.fibers[fiber].lanes = mergeLanes(@, lane)]
    IN  IF alternate # Null
        THEN [w1 EXCEPT !.fibers[alternate].lanes = mergeLanes(@, lane),
                        !.fibers[alternate].childLanes = mergeLanes(@, lane)]
        ELSE w1

concurrentEnqueueUpdate(w, fiber, queue, update, lane) ==
    LET alternate == w.fibers[fiber].alternate
        w1 == [w EXCEPT
                 !.cu.concurrentQueues =
                     Append(@, [fiber |-> fiber, queue |-> queue,
                                update |-> update, lane |-> lane]),
                 !.cu.concurrentlyUpdatedLanes = mergeLanes(@, lane),
                 !.fibers[fiber].lanes = mergeLanes(@, lane)]
    IN  IF alternate # Null
        THEN [w1 EXCEPT !.fibers[alternate].lanes = mergeLanes(@, lane)]
        ELSE w1

RECURSIVE getRootForUpdatedFiber(_, _)
getRootForUpdatedFiber(w, sourceFiber) ==
    LET parent == w.fibers[sourceFiber].return
    IN  IF parent # Null THEN getRootForUpdatedFiber(w, parent)
        ELSE IF w.fibers[sourceFiber].tag = HostRoot
             THEN w.fibers[sourceFiber].stateNode
             ELSE Null

enqueueConcurrentClassUpdate(w, fiber, queue, update, lane) ==
    The({ Ret(w1, getRootForUpdatedFiber(w1, fiber)) :
          w1 \in {concurrentEnqueueUpdate(w, fiber, queue, update, lane)} })

\* markUpdateLaneFromFiberToRoot is not in the sources; as the
\* specification (4.3) describes it: merge the lane into the fiber, its
\* alternate, and childLanes of every ancestor (and the ancestor's
\* alternate).
RECURSIVE markChildLanesToRoot(_, _, _)
markChildLanesToRoot(w, node, lane) ==
    LET parent == w.fibers[node].return
    IN  IF parent = Null THEN w
        ELSE LET alt == w.fibers[parent].alternate
                 w1 == [w EXCEPT !.fibers[parent].childLanes = mergeLanes(@, lane)]
                 w2 == IF alt = Null THEN w1
                       ELSE [w1 EXCEPT !.fibers[alt].childLanes = mergeLanes(@, lane)]
             IN  markChildLanesToRoot(w2, parent, lane)

markUpdateLaneFromFiberToRoot(w, sourceFiber, lane) ==
    LET alt == w.fibers[sourceFiber].alternate
        w1 == [w EXCEPT !.fibers[sourceFiber].lanes = mergeLanes(@, lane)]
        w2 == IF alt = Null THEN w1
              ELSE [w1 EXCEPT !.fibers[alt].lanes = mergeLanes(@, lane)]
    IN  markChildLanesToRoot(w2, sourceFiber, lane)

unsafe_markUpdateLaneFromFiberToRoot(w, sourceFiber, lane) ==
    The({ Ret(w1, getRootForUpdatedFiber(w1, sourceFiber)) :
          w1 \in {markUpdateLaneFromFiberToRoot(w, sourceFiber, lane)} })

\* finishQueueingConcurrentUpdates is called by the work loop but is not in
\* the sources; as the specification (4.3, 4.5) describes it: every staged
\* update is appended to its queue's circular pending list (new.next =
\* head, tail.next = new, pending = new) and its lane is marked up to the
\* root; an update staged for a hidden fiber carries OffscreenLane.
RECURSIVE finishQueueingFrom(_, _, _)
finishQueueingFrom(w, staged, i) ==
    IF i > Len(staged) THEN w
    ELSE LET e == staged[i]
             pending == w.shareds[e.queue].pending
             w1 == IF pending = Null
                   THEN [w EXCEPT !.updates[e.update].next = e.update]
                   ELSE [w EXCEPT !.updates[e.update].next = w.updates[pending].next,
                                  !.updates[pending].next = e.update]
             w2 == [w1 EXCEPT !.shareds[e.queue].pending = e.update,
                              !.gh.ring = Append(@, e.update),
                              !.gh.all = Append(@, e.update)]
             Marked(w3) ==
                 IF e.update \in w.gh.hidden
                 THEN [w3 EXCEPT !.updates[e.update].lane =
                                     mergeLanes(e.lane, OffscreenLane)]
                 ELSE w3
         IN  finishQueueingFrom(
                 Marked(IF e.lane # NoLane
                        THEN markUpdateLaneFromFiberToRoot(w2, e.fiber, e.lane)
                        ELSE w2),
                 staged, i + 1)

finishQueueingConcurrentUpdates(w) ==
    LET staged == w.cu.concurrentQueues
        w1 == [w EXCEPT !.cu.concurrentQueues = <<>>,
                        !.cu.concurrentlyUpdatedLanes = NoLanes]
    IN  finishQueueingFrom(w1, staged, 1)

\* Mutant: a render-phase update replaces the ring instead of joining it.
enqueueUpdate_DropRing(w, fiber, update, lane) ==
    LET updateQueue == w.fibers[fiber].updateQueue
    IN  IF updateQueue = Null THEN Ret(w, Null)
        ELSE LET sharedQueue == w.queues[updateQueue].shared
             IN  IF isUnsafeClassRenderPhaseUpdate(w, fiber)
                 THEN unsafe_markUpdateLaneFromFiberToRoot(
                        [w EXCEPT !.updates[update].next = update,
                                  !.shareds[sharedQueue].pending = update,
                                  !.gh.ring = Append(@, update),
                                  !.gh.all = Append(@, update)],
                        fiber, lane)
                 ELSE enqueueConcurrentClassUpdate(w, fiber, sharedQueue, update, lane)

\* Mutant: the update of a fiber without a queue still marks its lane on
\* the path to the root and reports the root.
enqueueUpdate_MarkDetached(w, fiber, update, lane) ==
    LET updateQueue == w.fibers[fiber].updateQueue
    IN  IF updateQueue = Null
        THEN unsafe_markUpdateLaneFromFiberToRoot(w, fiber, lane)
        ELSE enqueueConcurrentClassUpdate(w, fiber, w.queues[updateQueue].shared,
                                          update, lane)

\* Mutant: an update made outside a render is linked into the pending ring
\* as well as staged.
enqueueUpdate_LinkStaged(w, fiber, update, lane) ==
    LET updateQueue == w.fibers[fiber].updateQueue
    IN  IF updateQueue = Null THEN Ret(w, Null)
        ELSE LET sharedQueue == w.queues[updateQueue].shared
                 pending == w.shareds[sharedQueue].pending
                 w1 == IF pending = Null
                       THEN [w EXCEPT !.updates[update].next = update]
                       ELSE [w EXCEPT !.updates[update].next = w.updates[pending].next,
                                      !.updates[pending].next = update]
                 w2 == [w1 EXCEPT !.shareds[sharedQueue].pending = update,
                                  !.gh.ring = Append(@, update),
                                  !.gh.all = Append(@, update)]
             IN  IF isUnsafeClassRenderPhaseUpdate(w, fiber)
                 THEN unsafe_markUpdateLaneFromFiberToRoot(w2, fiber, lane)
                 ELSE enqueueConcurrentClassUpdate(w2, fiber, sharedQueue, update, lane)

enqueueUpdate(w, fiber, update, lane) ==
    LET updateQueue == w.fibers[fiber].updateQueue
    IN  IF updateQueue = Null THEN Ret(w, Null)
        ELSE LET sharedQueue == w.queues[updateQueue].shared
                 pending == w.shareds[sharedQueue].pending
                 w1 == IF pending = Null
                       THEN [w EXCEPT !.updates[update].next = update]
                       ELSE [w EXCEPT !.updates[update].next = w.updates[pending].next,
                                      !.updates[pending].next = update]
                 w2 == [w1 EXCEPT !.shareds[sharedQueue].pending = update,
                                  !.gh.ring = Append(@, update),
                                  !.gh.all = Append(@, update)]
             IN  IF isUnsafeClassRenderPhaseUpdate(w, fiber)
                 THEN unsafe_markUpdateLaneFromFiberToRoot(w2, fiber, lane)
                 ELSE enqueueConcurrentClassUpdate(w, fiber, sharedQueue, update, lane)

\* The updates of a base list, first to last (fuel bounds the walk).
RECURSIVE ListFrom(_, _, _)
ListFrom(w, first, fuel) ==
    IF first = Null \/ fuel = 0 THEN <<>>
    ELSE <<first>> \o ListFrom(w, w.updates[first].next, fuel - 1)

\* The updates of a pending ring, oldest to newest: from pending.next
\* round to pending.
RECURSIVE RingFrom(_, _, _, _)
RingFrom(w, node, last, fuel) ==
    IF fuel = 0 THEN <<>>
    ELSE IF node = last THEN <<node>>
    ELSE <<node>> \o RingFrom(w, w.updates[node].next, last, fuel - 1)

RingSeq(w, shared) ==
    LET pending == w.shareds[shared].pending
    IN  IF pending = Null THEN <<>>
        ELSE RingFrom(w, w.updates[pending].next, pending, Len(w.updates))

\* Everything a queue holds: its base list, then its pending ring.
QueueContents(w, queue) ==
    ListFrom(w, w.queues[queue].firstBaseUpdate, Len(w.updates))
        \o RingSeq(w, w.queues[queue].shared)

\* cloneUpdateQueue is called by the begin phase before processUpdateQueue
\* but is not in the sources; the specification (4.3) has the two fibers
\* own two queues that structurally share the update nodes and shared.
cloneUpdateQueue(w, current, workInProgress) ==
    LET queue == w.fibers[workInProgress].updateQueue
        currentQueue == w.fibers[current].updateQueue
        cq0 == w.queues[currentQueue]
        clone == [baseState |-> cq0.baseState,
                  firstBaseUpdate |-> cq0.firstBaseUpdate,
                  lastBaseUpdate |-> cq0.lastBaseUpdate,
                  shared |-> cq0.shared,
                  callbacks |-> <<>>]
    IN  IF queue = currentQueue
        THEN [w EXCEPT !.queues = Append(@, clone),
                       !.fibers[workInProgress].updateQueue = Len(w.queues) + 1]
        ELSE w

(***************************************************************************)
(* Lane bookkeeping on the root.  ReactFiberLane is not in the sources;    *)
(* these follow the specification (4.1).  Time is counted in ticks.        *)
(***************************************************************************)
noTimeout == -1
NoTimestamp == -1

LaneSet == {SyncLane, DefaultLane, TransitionLane}

\* The time a lane may stay pending before it expires (Sync: immediate).
SyncBudget == 0
DefaultBudget == 2
TransitionBudget == 2

expirationBudget(lane) ==
    CASE lane = SyncLane -> SyncBudget
      [] lane = DefaultLane -> DefaultBudget
      [] OTHER -> TransitionBudget

includesSyncLane(lanes) == BitAnd(lanes, SyncLane) # NoLanes
includesBlockingLane(lanes) == BitAnd(lanes, DefaultLane) # NoLanes
includesExpiredLane(w, root, lanes) ==
    BitAnd(lanes, w.roots[root].expiredLanes) # NoLanes

\* checkIfRootIsPrerendering: none of the render lanes is unblocked, that
\* is, all of them are suspended and not pinged.
checkIfRootIsPrerendering(w, root, renderLanes) ==
    LET r == w.roots[root]
        unblockedLanes == BitAndNot(r.pendingLanes,
                                    BitAndNot(r.suspendedLanes, r.pingedLanes))
    IN  BitAnd(unblockedLanes, renderLanes) = NoLanes

\* The lane becomes pending; when it first becomes pending its expiration
\* time is recorded.
markRootUpdated(w, root, updateLane) ==
    [w EXCEPT !.roots[root].pendingLanes = mergeLanes(@, updateLane),
              !.roots[root].expirationTimes =
                  [l \in DOMAIN @ |->
                     IF l = updateLane /\ @[l] = NoTimestamp
                     THEN w.env.now + expirationBudget(l) ELSE @[l]]]

\* Every pending lane whose expiration time has passed becomes expired.
markStarvedLanesAsExpired(w, root, currentTime) ==
    LET r == w.roots[root]
        starved == {l \in LaneSet :
                      /\ BitAnd(r.pendingLanes, l) # NoLanes
                      /\ r.expirationTimes[l] # NoTimestamp
                      /\ r.expirationTimes[l] <= currentTime}
        RECURSIVE Sum(_)
        Sum(S) == IF S = {} THEN NoLanes
                  ELSE LET l == CHOOSE x \in S : TRUE IN l + Sum(S \ {l})
    IN  [w EXCEPT !.roots[root].expiredLanes = mergeLanes(@, Sum(starved))]

\* getNextLanes: (1) the expired lanes, always; (2) the highest-priority
\* pending lane (3) that is not suspended, or is pinged; (4) a render in
\* progress is kept when the selection is a strict subset of its lanes.
getNextLanes(w, root, wipLanes, rootHasPendingCommit) ==
    LET r == w.roots[root]
        unblocked == BitAndNot(r.pendingLanes,
                               BitAndNot(r.suspendedLanes, r.pingedLanes))
        nextLanes == mergeLanes(BitAnd(r.expiredLanes, r.pendingLanes),
                                getHighestPriorityLane(unblocked))
    IN  IF r.pendingLanes = NoLanes THEN NoLanes
        ELSE IF wipLanes # NoLanes /\ nextLanes # NoLanes /\ nextLanes # wipLanes
                /\ isSubsetOfLanes(wipLanes, nextLanes)
        THEN wipLanes
        ELSE nextLanes

\* markRootSuspended: the lanes wait for data; a ping is no longer current.
markRootSuspended(w, root, suspendedLanes, spawnedLane, didAttemptEntireTree) ==
    [w EXCEPT !.roots[root].suspendedLanes = mergeLanes(@, suspendedLanes),
              !.roots[root].pingedLanes = removeLanes(@, suspendedLanes),
              !.roots[root].warmLanes =
                  IF didAttemptEntireTree THEN mergeLanes(@, suspendedLanes) ELSE @]

\* markRootPinged: the data of suspended lanes has arrived.
markRootPinged(w, root, pingedLanes) ==
    [w EXCEPT !.roots[root].pingedLanes =
                  mergeLanes(@, BitAnd(w.roots[root].suspendedLanes, pingedLanes))]

\* markRootFinished: what remains pending after a commit.
markRootFinished(w, root, remainingLanes) ==
    [w EXCEPT !.roots[root].pendingLanes = remainingLanes,
              !.roots[root].suspendedLanes = NoLanes,
              !.roots[root].pingedLanes = NoLanes,
              !.roots[root].warmLanes = NoLanes,
              !.roots[root].expiredLanes = BitAnd(@, remainingLanes),
              !.roots[root].expirationTimes =
                  [l \in DOMAIN @ |->
                     IF BitAnd(l, remainingLanes) = NoLanes THEN NoTimestamp ELSE @[l]]]

(***************************************************************************)
(* The Scheduler and the microtask queue of the host (external).           *)
(* env.tasks are the callbacks scheduled and neither cancelled nor         *)
(* finished, each with its node (the handle returned to the caller) and    *)
(* the root it is bound to; a new node is the least one that is not alive  *)
(* and is not the one handed out last.  env.microtask counts the           *)
(* microtasks queued and not yet run.                                      *)
(***************************************************************************)
\* Mutant: the callback stays in the Scheduler when it is cancelled.
cancelCallback_Not(w, node) == w

Scheduler_scheduleCallback(w, root) ==
    LET used == {t.node : t \in w.env.tasks} \cup {w.env.lastNode}
        node == CHOOSE n \in 1..(Cardinality(used) + 1) :
                    n \notin used /\ \A m \in 1..(n - 1) : m \in used
    IN  Ret([w EXCEPT !.env.tasks = @ \cup {[node |-> node, root |-> root]},
                      !.env.lastNode = node],
            node)

cancelCallback(w, node) ==
    [w EXCEPT !.env.tasks = {t \in @ : t.node # node}]

scheduleMicrotask(w) == [w EXCEPT !.env.microtask = @ + 1]

(***************************************************************************)
(* ReactFiberRootScheduler.js                                              *)
(***************************************************************************)
\* lines 23-47; supportsMicrotasks is true (ReactFiberConfigDOM.js).
scheduleImmediateRootScheduleTask(w) == scheduleMicrotask(w)

\* Mutant: the root is appended without a look at the list.
ensureRootIsScheduled_Appends(w, root) ==
    LET w1 == IF w.rs.lastScheduledRoot = Null
              THEN [w EXCEPT !.rs.firstScheduledRoot = root,
                             !.rs.lastScheduledRoot = root]
              ELSE [w EXCEPT !.roots[w.rs.lastScheduledRoot].next = root,
                             !.rs.lastScheduledRoot = root]
        w2 == [w1 EXCEPT !.rs.mightHavePendingSyncWork = TRUE]
    IN  IF ~w2.rs.didScheduleMicrotask
        THEN scheduleImmediateRootScheduleTask(
                 [w2 EXCEPT !.rs.didScheduleMicrotask = TRUE])
        ELSE w2

\* Mutant: a microtask is armed whether or not one is armed already.
ensureRootIsScheduled_Arms(w, root) ==
    LET w1 == IF root = w.rs.lastScheduledRoot \/ w.roots[root].next # Null
              THEN w
              ELSE IF w.rs.lastScheduledRoot = Null
              THEN [w EXCEPT !.rs.firstScheduledRoot = root,
                             !.rs.lastScheduledRoot = root]
              ELSE [w EXCEPT !.roots[w.rs.lastScheduledRoot].next = root,
                             !.rs.lastScheduledRoot = root]
    IN  scheduleImmediateRootScheduleTask(
            [w1 EXCEPT !.rs.mightHavePendingSyncWork = TRUE,
                       !.rs.didScheduleMicrotask = TRUE])

\* Mutant: a root already in the list is appended again and the microtask
\* is not armed.
ensureRootIsScheduled_NoMicrotask(w, root) ==
    [w EXCEPT !.rs.mightHavePendingSyncWork = TRUE]

\* lines 358-391.
ensureRootIsScheduled(w, root) ==
    LET w1 == IF root = w.rs.lastScheduledRoot \/ w.roots[root].next # Null
              THEN w
              ELSE IF w.rs.lastScheduledRoot = Null
              THEN [w EXCEPT !.rs.firstScheduledRoot = root,
                             !.rs.lastScheduledRoot = root]
              ELSE [w EXCEPT !.roots[w.rs.lastScheduledRoot].next = root,
                             !.rs.lastScheduledRoot = root]
        w2 == [w1 EXCEPT !.rs.mightHavePendingSyncWork = TRUE]
    IN  IF ~w2.rs.didScheduleMicrotask
        THEN scheduleImmediateRootScheduleTask(
                 [w2 EXCEPT !.rs.didScheduleMicrotask = TRUE])
        ELSE w2

isWorkLoopSuspendedOnData(w) ==
    w.wl.workInProgressSuspendedReason \in {"SuspendedOnData", "SuspendedOnAction"}

\* Mutant: an expired lane is not looked for when a root is scheduled.
StarvedLanesMarked_Not(w, root, currentTime) == w

\* line 66.
StarvedLanesMarked(w, root, currentTime) ==
    markStarvedLanesAsExpired(w, root, currentTime)

\* Mutant: a callback is never scheduled for lanes that are not Sync.
NeedsNewCallback_Not(newCallbackPriority, existingCallbackPriority) == FALSE

\* lines 131-140: the callback in place is kept when its priority is the
\* one wanted.
NeedsNewCallback(newCallbackPriority, existingCallbackPriority) ==
    newCallbackPriority # existingCallbackPriority

\* Mutant: the priority recorded for a Scheduler callback is NoLane.
newCallbackPriorityOf_NoLane(nextLanes) == NoLane

\* line 124.
newCallbackPriorityOf(nextLanes) == getHighestPriorityLane(nextLanes)

\* Mutant: Sync lanes get a Scheduler callback like any other lane.
IsSyncWork_Never(w, root, nextLanes) == FALSE

\* lines 108-115: the lanes are flushed at the end of the microtask.
IsSyncWork(w, root, nextLanes) ==
    /\ includesSyncLane(nextLanes)
    /\ ~(w.env.enableSiblingPrerendering
         /\ checkIfRootIsPrerendering(w, root, nextLanes))

\* lines 61-180.  Returns the priority of the callback now in place.
scheduleTaskForRootDuringMicrotask(w, root, currentTime) ==
    LET w0 == StarvedLanesMarked(w, root, currentTime)
        w1 == [w0 EXCEPT !.gh.sched = [now |-> currentTime,
                                       pending |-> w.roots[root].pendingLanes,
                                       times |-> w.roots[root].expirationTimes,
                                       expired |-> w0.roots[root].expiredLanes]]
        r == w.roots[root]
        workInProgressRoot == w.wl.workInProgressRoot
        workInProgressRootRenderLanes == w.wl.workInProgressRootRenderLanes
        rootHasPendingCommit ==
            r.cancelPendingCommit # Null \/ r.timeoutHandle # noTimeout
        existingCallbackNode == r.callbackNode
        existingCallbackPriority == r.callbackPriority
        Decide(ws, nextLanes) ==
            LET cancelled == IF existingCallbackNode # Null
                             THEN cancelCallback(ws, existingCallbackNode) ELSE ws
                newCallbackPriority == newCallbackPriorityOf(nextLanes)
            IN  IF \/ nextLanes = NoLane
                   \/ (root = workInProgressRoot /\ isWorkLoopSuspendedOnData(ws))
                   \/ r.cancelPendingCommit # Null
                THEN Ret([cancelled EXCEPT !.roots[root].callbackNode = Null,
                                           !.roots[root].callbackPriority = NoLane],
                         NoLane)
                ELSE IF IsSyncWork(ws, root, nextLanes)
                THEN Ret([cancelled EXCEPT !.roots[root].callbackPriority = SyncLane,
                                           !.roots[root].callbackNode = Null],
                         SyncLane)
                ELSE IF ~NeedsNewCallback(newCallbackPriority,
                                          existingCallbackPriority)
                THEN Ret(ws, newCallbackPriority)
                ELSE The({ Ret([scheduled.w EXCEPT
                                  !.roots[root].callbackPriority = newCallbackPriority,
                                  !.roots[root].callbackNode = scheduled.ret],
                               newCallbackPriority) :
                           scheduled \in {Scheduler_scheduleCallback(cancelled, root)} })
        Lanes(ws) ==
            getNextLanes(ws, root,
                         IF root = workInProgressRoot
                         THEN workInProgressRootRenderLanes ELSE NoLanes,
                         rootHasPendingCommit)
        Logged(ws, nextLanes, d) ==
            Ret([d.w EXCEPT !.gh.scheduled = Append(@,
                   [root |-> root, nextLanes |-> nextLanes,
                    suspendedOnData |-> /\ root = workInProgressRoot
                                        /\ isWorkLoopSuspendedOnData(ws),
                    pendingCommit |-> r.cancelPendingCommit # Null,
                    prerendering |-> checkIfRootIsPrerendering(ws, root, nextLanes),
                    existingNode |-> existingCallbackNode,
                    existingPriority |-> existingCallbackPriority,
                    tasksBefore |-> w.env.tasks,
                    tasksAfter |-> d.w.env.tasks,
                    node |-> d.w.roots[root].callbackNode,
                    priority |-> d.w.roots[root].callbackPriority,
                    ret |-> d.ret])],
                d.ret)
    IN  The({ The({ The({ Logged(ws, nextLanes, d) :
                          d \in {Decide(ws, nextLanes)} }) :
                    nextLanes \in {Lanes(ws)} }) :
              ws \in {w1} })

(***************************************************************************)
(* The begin and complete phases.  beginWork's prologue (bailout test,     *)
(* lanes reset, dispatch on the tag) is ReactFiber.js, lines 174-476; the  *)
(* tag handlers, the child reconciler, completeWork and the commit are     *)
(* outside the sources and follow the specification (4.5 - 4.7).           *)
(*                                                                         *)
(* The application is a fixed tree of element types: env.shape[t] is the   *)
(* sequence of child types of an element of type t (type Null is the       *)
(* root).  beh is what the user code of the fiber does in this unit of     *)
(* work: beh.flags are the effect flags its handler produces, beh.throws   *)
(* is "" or the kind of value it throws.                                   *)
(***************************************************************************)
NoBehaviour == [flags |-> NoFlags, throws |-> "", updates |-> <<>>]

\* The fibers of a sibling chain, first to last.
RECURSIVE SiblingChain(_, _)
SiblingChain(w, first) ==
    IF first = Null THEN <<>>
    ELSE <<first>> \o SiblingChain(w, w.fibers[first].sibling)

\* A render function returns new element objects: the props handed to a
\* child are never identical to the props of its previous render.
FreshProps(oldProps) == IF oldProps = 1 THEN 2 ELSE 1

\* The child list of workInProgress, rebuilt over an unchanged list of
\* element types.  fresh: the parent rendered (reconcileChildFibers: an
\* existing child is reused through createWorkInProgress with new props, a
\* missing one is created with Placement); not fresh: the parent bailed
\* out (cloneChildFibers: every child is cloned with its own props).
RECURSIVE reconcileFrom(_, _, _, _, _, _, _)
reconcileFrom(w, returnFiber, oldChildren, types, i, prev, fresh) ==
    IF i > Len(types)
    THEN \* deleteRemainingChildren
         IF i > Len(oldChildren) THEN w
         ELSE reconcileFrom(
                [w EXCEPT !.fibers[returnFiber].deletions = Append(@, oldChildren[i]),
                          !.fibers[returnFiber].flags = BitOr(@, ChildDeletion)],
                returnFiber, oldChildren, types, i + 1, prev, fresh)
    ELSE LET existing == IF i <= Len(oldChildren) THEN oldChildren[i] ELSE Null
             \* deleteChild: an existing child of another type is not reused.
             old == IF existing # Null /\ w.fibers[existing].type = types[i]
                    THEN existing ELSE Null
             w0 == IF existing # Null /\ old = Null
                   THEN [w EXCEPT !.fibers[returnFiber].deletions = Append(@, existing),
                                  !.fibers[returnFiber].flags = BitOr(@, ChildDeletion)]
                   ELSE w
             props == IF old = Null THEN FreshProps(Null)
                      ELSE IF fresh THEN FreshProps(w.fibers[old].memoizedProps)
                      ELSE w.fibers[old].pendingProps
             Place(made) ==
                 LET f == made.ret
                     w1 == IF old # Null THEN made.w
                           ELSE [made.w EXCEPT !.fibers[f].type = types[i],
                                               !.fibers[f].flags = Placement]
                     w2 == [w1 EXCEPT !.fibers[f].return = returnFiber,
                                      !.fibers[f].index = i - 1,
                                      !.fibers[f].sibling = Null]
                 IN  Ret(IF prev = Null
                         THEN [w2 EXCEPT !.fibers[returnFiber].child = f]
                         ELSE [w2 EXCEPT !.fibers[prev].sibling = f],
                         f)
         IN  The({ reconcileFrom(placed.w, returnFiber, oldChildren, types,
                                 i + 1, placed.ret, fresh) :
                   placed \in
                     { Place(made) :
                       made \in {IF old # Null
                                 THEN createWorkInProgress(w0, old, props)
                                 ELSE createFiber(w0, HostComponent, props)} } })

\* The element types a fiber renders: the root renders the element of its
\* state (field a holds the element's type, 0 or absent renders nothing), a
\* component the children of its type.
nextChildren(w, workInProgress) ==
    LET f == w.fibers[workInProgress]
    IN  IF f.tag = HostRoot
        THEN IF f.memoizedState = NullObj \/ f.memoizedState.a \notin DOMAIN w.env.shape
             THEN <<>>
             ELSE <<f.memoizedState.a>>
        ELSE w.env.shape[f.type]

reconcileChildren(w, current, workInProgress) ==
    LET types == nextChildren(w, workInProgress)
        oldChildren == IF current = Null THEN <<>>
                       ELSE SiblingChain(w, w.fibers[current].child)
        w1 == [w EXCEPT !.fibers[workInProgress].child = Null]
    IN  reconcileFrom(w1, workInProgress, oldChildren, types, 1, Null, TRUE)

cloneChildFibers(w, current, workInProgress) ==
    LET oldChildren == SiblingChain(w, w.fibers[workInProgress].child)
        types == [i \in DOMAIN oldChildren |-> w.fibers[oldChildren[i]].type]
    IN  reconcileFrom(w, workInProgress, oldChildren, types, 1, Null, FALSE)

\* bailoutOnAlreadyFinishedWork: skip the subtree when no child has work
\* in the render lanes, else clone the children and continue below.
bailoutOnAlreadyFinishedWork(w, current, workInProgress, renderLanes) ==
    IF ~includesSomeLane(renderLanes, w.fibers[workInProgress].childLanes)
    THEN Ret(w, Null)
    ELSE The({ Ret(w1, w1.fibers[workInProgress].child) :
               w1 \in {cloneChildFibers(w, current, workInProgress)} })

checkScheduledUpdateOrContext(w, current, renderLanes) ==
    includesSomeLane(w.fibers[current].lanes, renderLanes)

Input(tag, payload, callback, hidden) ==
    [tag |-> tag, payload |-> payload, callback |-> callback, hidden |-> hidden]

\* requestUpdateLane (work loop): during a render an update takes a lane of
\* the render in progress; outside, the lane of the event that makes it.
requestUpdateLane(w, eventLane) ==
    IF BitAnd(w.wl.executionContext, RenderContext) # NoContext
       /\ w.wl.workInProgressRootRenderLanes # NoLanes
    THEN getHighestPriorityLane(w.wl.workInProgressRootRenderLanes)
    ELSE eventLane

\* A producer of updates (classComponentUpdater.enqueueSetState,
\* enqueueReplaceState, enqueueForceUpdate): createUpdate, fill in the tag,
\* the payload and the callback, enqueueUpdate, mark the root.
\* inp.hidden: the fiber sits in a hidden Offscreen tree.
setState(w, fiber, inp, eventLane) ==
    LET lane == requestUpdateLane(w, eventLane)
        Enqueue(made) ==
            LET update == made.ret
                w1 == [made.w EXCEPT
                         !.updates[update].tag = inp.tag,
                         !.updates[update].payload = inp.payload,
                         !.updates[update].callback = inp.callback,
                         !.gh.hidden = IF inp.hidden THEN @ \cup {update} ELSE @,
                         !.gh.enq = @ + 1]
            IN  enqueueUpdate(w1, fiber, update, lane)
    IN  The({ IF queued.ret # Null
              THEN markRootUpdated(queued.w, queued.ret, lane)
              ELSE queued.w :
              queued \in { Enqueue(made) : made \in {createUpdate(w, lane)} } })

(***************************************************************************)
(* getStateFromUpdate (part_001, lines 372-438): the new state, and the    *)
(* world with the flags and hasForceUpdate it sets.                        *)
(***************************************************************************)
\* What calling a function payload does besides returning a state: the
\* function named "again" sets the state of its own component
\* (payload.call(instance, prevState, nextProps), lines 388 and 411).
PayloadEffect(w, fiber, name) ==
    IF name = "again"
    THEN The({ [set EXCEPT !.gh.during = Append(@, Len(w.updates) + 1)] :
               set \in {setState(w, fiber,
                                 Input(UpdateState, FnPayload("toggle"), Null, FALSE),
                                 SyncLane)} })
    ELSE w

getStateFromUpdate(w0, workInProgress, queue, update, prevState, nextProps, instance) ==
    LET u == w0.updates[update]
        payload == u.payload
        result == IF payload.fn # ""
                  THEN CallPayload(payload.fn, prevState, nextProps)
                  ELSE payload.obj
        State(w) ==
            LET captured == [w EXCEPT !.fibers[workInProgress].flags =
                                BitOr(BitAndNot(@, ShouldCapture), DidCapture)]
            IN  CASE u.tag = ReplaceState -> Ret(w, result)
                  [] u.tag = CaptureUpdate ->
                        IF result = NullObj THEN Ret(captured, prevState)
                        ELSE Ret(captured, assign(prevState, result))
                  [] u.tag = UpdateState ->
                        IF result = NullObj THEN Ret(w, prevState)
                        ELSE Ret(w, assign(prevState, result))
                  [] u.tag = ForceUpdate ->
                        Ret([w EXCEPT !.cq.hasForceUpdate = TRUE], prevState)
                  [] OTHER -> Ret(w, prevState)
    IN  The({ State(w) :
              w \in {IF payload.fn # ""
                        /\ u.tag \in {ReplaceState, CaptureUpdate, UpdateState}
                     THEN PayloadEffect(w0, workInProgress, payload.fn)
                     ELSE w0} })

\* peekEntangledActionLane (ReactFiberAsyncAction) is outside the sources:
\* no async action is in flight in the model.
peekEntangledActionLane == NoLane

\* markSkippedUpdateLanes (work loop): accumulate the skipped lanes.
markSkippedUpdateLanes(w, lanes) ==
    [w EXCEPT !.wl.workInProgressRootSkippedLanes = mergeLanes(lanes, @)]

\* new Update object literal (part_001, lines 249-255 and 276-282).
CloneOf(u, lane, callback) ==
    [lane |-> lane, tag |-> u.tag, payload |-> u.payload,
     callback |-> callback, next |-> Null, src |-> u.src]

\* What one turn of the loop met: the update, whether it was skipped, and
\* the state computed before it.
StepOf(u, skipped, state) ==
    [src |-> u.src, lane |-> u.lane, callback |-> u.callback,
     skipped |-> skipped, state |-> state]

\* Mutant: the clone of an applied update keeps the callback.
appliedCloneCallback_Keeps(u) == u.callback

\* part_001, line 280: the clone of an applied update has no callback.
appliedCloneCallback(u) == Null

\* Mutant: an applied update that follows a skipped one is not kept for
\* the rebase.
KeepsAppliedForRebase_Not(newLastBaseUpdate) == FALSE

\* part_001, line 275: an applied update is cloned into the new base list
\* when an earlier update was skipped.
KeepsAppliedForRebase(newLastBaseUpdate) == newLastBaseUpdate # Null

\* Mutant: the skip test is inverted for updates of the render lanes.
shouldSkip_Never(w, update, renderLanes) == FALSE

\* part_001, lines 235-244.
shouldSkip(w, update, renderLanes) ==
    LET updateLane == removeLanes(w.updates[update].lane, OffscreenLane)
        isHiddenUpdate == updateLane # w.updates[update].lane
    IN  IF isHiddenUpdate
        THEN ~isSubsetOfLanes(w.wl.workInProgressRootRenderLanes, updateLane)
        ELSE ~isSubsetOfLanes(renderLanes, updateLane)

\* Mutant: the lane of an update keeps its OffscreenLane mark.
updateLaneOf_Raw(lane) == lane

\* part_001, line 235: the lane of an update without the OffscreenLane mark.
updateLaneOf(lane) == removeLanes(lane, OffscreenLane)

(***************************************************************************)
(* The do-while loop of processUpdateQueue (part_001, lines 233-333).      *)
(* acc holds the loop's locals: update, newState, newLanes, newBaseState,  *)
(* newFirstBaseUpdate, newLastBaseUpdate, and the world.                   *)
(***************************************************************************)
RECURSIVE processUpdateLoop(_, _, _, _, _)
processUpdateLoop(acc, workInProgress, props, instance, renderLanes) ==
    LET w == acc.w
        queue == w.fibers[workInProgress].updateQueue
        u == w.updates[acc.update]
        updateLane == updateLaneOf(u.lane)
        isHiddenUpdate == updateLane # u.lane
        shouldSkipUpdate == shouldSkip(w, acc.update, renderLanes)
        cloneId == Len(w.updates) + 1
        \* ---- the update is skipped (lines 246-265)
        skipW == LET w1 == [w EXCEPT !.updates =
                               Append(@, CloneOf(u, updateLane, u.callback)),
                               !.gh.skipped = Append(@, u.src),
                               !.gh.skippedLanes = Append(@, u.lane),
                               !.gh.steps = Append(@, StepOf(u, TRUE, acc.newState)),
                               !.gh.everSkipped = @ \cup {u.src}]
                 IN  IF acc.newLastBaseUpdate = Null THEN w1
                     ELSE [w1 EXCEPT !.updates[acc.newLastBaseUpdate].next = cloneId]
        skipAcc == [acc EXCEPT
                      !.w = skipW,
                      !.newFirstBaseUpdate =
                          IF acc.newLastBaseUpdate = Null THEN cloneId ELSE @,
                      !.newBaseState =
                          IF acc.newLastBaseUpdate = Null THEN acc.newState ELSE @,
                      !.newLastBaseUpdate = cloneId,
                      !.newLanes = mergeLanes(acc.newLanes, updateLane)]
        \* ---- the update is applied (lines 266-312)
        a1 == IF updateLane # NoLane /\ updateLane = peekEntangledActionLane
              THEN [w EXCEPT !.cq.didReadFromEntangledAsyncAction = TRUE]
              ELSE w
        keep == KeepsAppliedForRebase(acc.newLastBaseUpdate)
        a2 == IF keep
              THEN [a1 EXCEPT !.updates = Append(@, CloneOf(u, NoLane,
                                                           appliedCloneCallback(u))),
                              !.updates[acc.newLastBaseUpdate].next = cloneId]
              ELSE a1
        a4(a3) == IF u.callback = Null THEN a3
                  ELSE [a3 EXCEPT
                          !.fibers[workInProgress].flags =
                              IF isHiddenUpdate
                              THEN BitOr(BitOr(@, Callback), Visibility)
                              ELSE BitOr(@, Callback),
                          !.queues[queue].callbacks = Append(@, u.callback),
                          !.gh.called = Append(@, u.src)]
        applyAcc(got) ==
            [acc EXCEPT
               !.w = a4([got.w EXCEPT
                           !.gh.applied = Append(@, u.src),
                           !.gh.steps = Append(@, StepOf(u, FALSE, acc.newState))]),
               !.newLastBaseUpdate = IF keep THEN cloneId ELSE @,
               !.newState = got.ret]
        \* ---- advance (lines 314-332)
        Advance(b) ==
            LET next == b.w.updates[acc.update].next
                pendingQueue == b.w.shareds[b.w.queues[queue].shared].pending
            IN  IF next # Null
                THEN [b EXCEPT !.update = next]
                ELSE IF pendingQueue = Null
                THEN [b EXCEPT !.update = Null]
                ELSE \* updates were appended while the list was processed
                     LET lastPendingUpdate == pendingQueue
                         firstPendingUpdate == b.w.updates[lastPendingUpdate].next
                         w1 == [b.w EXCEPT
                                  !.updates[lastPendingUpdate].next = Null,
                                  !.queues[queue].lastBaseUpdate = lastPendingUpdate,
                                  !.shareds[b.w.queues[queue].shared].pending = Null,
                                  !.gh.ring = <<>>]
                     IN  [b EXCEPT !.w = w1, !.update = firstPendingUpdate]
    IN  The({ IF advanced.update = Null
              THEN [advanced EXCEPT !.update = acc.update]
              ELSE processUpdateLoop(advanced, workInProgress, props,
                                     instance, renderLanes) :
              advanced \in
                { Advance(b) :
                  b \in { IF shouldSkipUpdate THEN skipAcc
                          ELSE The({ applyAcc(got) :
                                     got \in {getStateFromUpdate(
                                                 a2, workInProgress, queue,
                                                 acc.update, acc.newState,
                                                 props, instance)} }) } } })

\* Mutant: the spliced pending updates are not handed to the current queue.
SyncsCurrentQueue_Not(current) == FALSE

\* part_001, lines 202-203: the current fiber's queue is kept in step.
SyncsCurrentQueue(current) == current # Null

\* The base list of a queue: source, lane and callback of its updates.
BaseListOf(w, queue) ==
    LET list == ListFrom(w, w.queues[queue].firstBaseUpdate, Len(w.updates))
    IN  [i \in DOMAIN list |->
           [src |-> w.updates[list[i]].src, lane |-> w.updates[list[i]].lane,
            callback |-> w.updates[list[i]].callback]]

(***************************************************************************)
(* processUpdateQueue (part_001, lines 159-356).                           *)
(***************************************************************************)
processUpdateQueue(w0, workInProgress, props, instance, renderLanes) ==
    LET wa == [w0 EXCEPT !.cq.didReadFromEntangledAsyncAction = FALSE,
                         !.cq.hasForceUpdate = FALSE,
                         !.gh.applied = <<>>,
                         !.gh.skipped = <<>>,
                         !.gh.skippedLanes = <<>>,
                         !.gh.store = <<>>,
                         !.gh.steps = <<>>,
                         !.gh.called = <<>>,
                         !.gh.during = <<>>]
        queue == wa.fibers[workInProgress].updateQueue
        q == wa.queues[queue]
        pendingQueue == wa.shareds[q.shared].pending
        \* ---- splice the pending ring into the base list (lines 179-217)
        lastPendingUpdate == pendingQueue
        firstPendingUpdate == wa.updates[lastPendingUpdate].next
        s1 == [wa EXCEPT !.shareds[q.shared].pending = Null,
                         !.updates[lastPendingUpdate].next = Null,
                         !.gh.ring = <<>>]
        Linked(s) ==
            IF q.lastBaseUpdate = Null THEN s
            ELSE [s EXCEPT !.updates[q.lastBaseUpdate].next = firstPendingUpdate]
        current == wa.fibers[workInProgress].alternate
        currentQueue == wa.fibers[current].updateQueue
        currentLastBaseUpdate == wa.queues[currentQueue].lastBaseUpdate
        Synced(s2) ==
            IF SyncsCurrentQueue(current) /\ currentLastBaseUpdate # lastPendingUpdate
            THEN IF currentLastBaseUpdate = Null
                 THEN [s2 EXCEPT
                         !.queues[currentQueue].firstBaseUpdate = firstPendingUpdate,
                         !.queues[currentQueue].lastBaseUpdate = lastPendingUpdate]
                 ELSE [s2 EXCEPT
                         !.updates[currentLastBaseUpdate].next = firstPendingUpdate,
                         !.queues[currentQueue].lastBaseUpdate = lastPendingUpdate]
            ELSE s2
        firstBaseUpdate ==
            IF pendingQueue # Null /\ q.lastBaseUpdate = Null
            THEN firstPendingUpdate ELSE q.firstBaseUpdate
        \* ---- walk the base list (lines 219-333)
        Start(wb) ==
            [w |-> wb, update |-> firstBaseUpdate,
             newState |-> wb.queues[queue].baseState,
             newLanes |-> NoLanes, newBaseState |-> NullObj,
             newFirstBaseUpdate |-> Null, newLastBaseUpdate |-> Null]
        \* ---- store the result (lines 335-353)
        Store(fin) ==
            LET newBaseState == IF fin.newLastBaseUpdate = Null
                                THEN fin.newState ELSE fin.newBaseState
                wc == [fin.w EXCEPT
                         !.queues[queue].baseState = newBaseState,
                         !.queues[queue].firstBaseUpdate = fin.newFirstBaseUpdate,
                         !.queues[queue].lastBaseUpdate = fin.newLastBaseUpdate]
            IN  The({ [wd EXCEPT !.gh.store =
                                  <<[fiber |-> workInProgress,
                                     lanes |-> wd.fibers[workInProgress].lanes,
                                     skipped |-> wd.gh.skippedLanes,
                                     base |-> BaseListOf(wd, queue),
                                     baseState |-> wd.queues[queue].baseState,
                                     memoizedState |->
                                         wd.fibers[workInProgress].memoizedState,
                                     callbacks |-> wd.queues[queue].callbacks,
                                     flags |-> wd.fibers[workInProgress].flags]>>] :
                      wd \in {[markSkippedUpdateLanes(wc, fin.newLanes) EXCEPT
                                !.fibers[workInProgress].lanes = fin.newLanes,
                                !.fibers[workInProgress].memoizedState = fin.newState]} })
    IN  The({ IF firstBaseUpdate # Null
              THEN The({ Store(fin) :
                         fin \in {processUpdateLoop(Start(wb), workInProgress, props,
                                                    instance, renderLanes)} })
              ELSE wb :
              wb \in {IF pendingQueue # Null
                      THEN The({ Synced(s2) : s2 \in {Linked(s1)} })
                      ELSE wa} })

\* updateHostRoot: clone the queue, process it, reconcile the children.
updateHostRoot(w, current, workInProgress, renderLanes) ==
    LET Noted(w1) ==
            LET queue == w1.fibers[workInProgress].updateQueue
                before == QueueContents(w1, queue)
            IN  [w1 EXCEPT !.gh.before = before,
                           !.gh.beforeLanes =
                               [i \in DOMAIN before |-> w1.updates[before[i]].lane],
                           !.gh.baseBefore = w1.queues[queue].baseState,
                           !.gh.processed = TRUE,
                           !.gh.abandoned = FALSE]
    IN  The({ Ret(w4, w4.fibers[workInProgress].child) :
              w4 \in
                { reconcileChildren(w3, current, workInProgress) :
                  w3 \in
                    { processUpdateQueue(w2, workInProgress,
                                         w2.fibers[workInProgress].pendingProps, Null,
                                         renderLanes) :
                      w2 \in
                        { Noted(w1) :
                          w1 \in {cloneUpdateQueue(w, current, workInProgress)} } } } })

RECURSIVE setStates(_, _, _, _)
setStates(w, fiber, inps, i) ==
    IF i > Len(inps) THEN w
    ELSE setStates(setState(w, fiber, inps[i], NoLane), fiber, inps, i + 1)

\* updateHostComponent and the component handlers: the user code runs (it
\* may update the container while rendering), the handler's effect flags
\* are set and the children are reconciled.
updateComponent(w, current, workInProgress, beh) ==
    LET root == w.wl.workInProgressRoot
    IN  The({ Ret(w2, w2.fibers[workInProgress].child) :
              w2 \in
                { reconcileChildren(
                      [w1 EXCEPT !.fibers[workInProgress].flags = BitOr(@, beh.flags)],
                      current, workInProgress) :
                  w1 \in {setStates(w, w.roots[root].current, beh.updates, 1)} } })

\* Mutant: the early bailout ignores the updates scheduled on the fiber.
HasScheduledWork_Not(w, current, workInProgress, renderLanes) == FALSE

\* ReactFiber.js, lines 212-221.
HasScheduledWork(w, current, workInProgress, renderLanes) ==
    \/ checkScheduledUpdateOrContext(w, current, renderLanes)
    \/ BitAnd(w.fibers[workInProgress].flags, DidCapture) # NoFlags

\* hasLegacyContextChanged (ReactFiberLegacyContext) is outside the
\* sources: whether a legacy context provider above the fiber has changed
\* is an input of the render.
hasLegacyContextChanged(w) == w.env.legacyContextChanged

\* ReactFiber.js, lines 200-205 (the hot-reload test is development only).
PropsOrContextChanged(w, current, workInProgress) ==
    \/ w.fibers[current].memoizedProps # w.fibers[workInProgress].pendingProps
    \/ hasLegacyContextChanged(w)

\* Mutant: a fiber that does not bail out has always received an update.
didReceiveUpdateOf_Always(w, current, workInProgress, renderLanes) ==
    /\ current # Null
    /\ \/ PropsOrContextChanged(w, current, workInProgress)
       \/ HasScheduledWork(w, current, workInProgress, renderLanes)

\* ReactFiber.js, lines 196-244: the value beginWork gives didReceiveUpdate.
didReceiveUpdateOf(w, current, workInProgress, renderLanes) ==
    IF current = Null THEN FALSE
    ELSE IF PropsOrContextChanged(w, current, workInProgress) THEN TRUE
    ELSE IF ~HasScheduledWork(w, current, workInProgress, renderLanes) THEN FALSE
    ELSE BitAnd(w.fibers[current].flags, ForceUpdateForLegacySuspense) # NoFlags

\* beginWork (ReactFiber.js, lines 174-476).  The result carries thrown:
\* "" when beginWork returns, else the kind of the value thrown by the
\* handler (the world is then the one at the throw).
beginWork(w, current, workInProgress, renderLanes, beh) ==
    LET wip == w.fibers[workInProgress]
        bail == /\ current # Null
                /\ ~PropsOrContextChanged(w, current, workInProgress)
                /\ ~HasScheduledWork(w, current, workInProgress, renderLanes)
        w1 == [w EXCEPT !.wl.didReceiveUpdate =
                   didReceiveUpdateOf(w, current, workInProgress, renderLanes)]
        w2 == [w1 EXCEPT !.fibers[workInProgress].lanes = NoLanes]
    IN  IF bail
        THEN bailoutOnAlreadyFinishedWork([w1 EXCEPT !.gh.bailed = TRUE],
                                          current, workInProgress, renderLanes)
                @@ [thrown |-> ""]
        ELSE IF beh.throws # "" /\ wip.tag # HostRoot
        THEN Ret(w2, Null) @@ [thrown |-> beh.throws]
        ELSE IF wip.tag = HostRoot
        THEN updateHostRoot(w2, current, workInProgress, renderLanes)
                @@ [thrown |-> ""]
        ELSE updateComponent(w2, current, workInProgress, beh)
                @@ [thrown |-> ""]

\* completeWork: bubble subtreeFlags and childLanes from the children.
RECURSIVE bubbleFrom(_, _, _, _)
bubbleFrom(w, child, flagsAcc, lanesAcc) ==
    IF child = Null THEN [flags |-> flagsAcc, lanes |-> lanesAcc]
    ELSE LET c == w.fibers[child]
         IN  bubbleFrom(w, c.sibling,
                        BitOr(flagsAcc, BitOr(c.subtreeFlags, c.flags)),
                        mergeLanes(lanesAcc, mergeLanes(c.lanes, c.childLanes)))

completeWork(w, current, completedWork, renderLanes) ==
    LET b == bubbleFrom(w, w.fibers[completedWork].child, NoFlags, NoLanes)
    IN  Ret([w EXCEPT !.fibers[completedWork].subtreeFlags = BitOr(@, b.flags),
                      !.fibers[completedWork].childLanes = b.lanes,
                      !.gh.completed = Append(@, completedWork),
                      !.gh.trace = Append(@, [op |-> "complete", fiber |-> completedWork])],
            Null)

\* Mutant: a completed fiber hands over to its parent, not to its sibling.
RECURSIVE completeUnitOfWork_SkipsSiblings(_, _)
completeUnitOfWork_SkipsSiblings(w, completedWork) ==
    IF BitAnd(w.fibers[completedWork].flags, Incomplete) # NoFlags
    THEN [w EXCEPT !.wl.workInProgress = Null,
                   !.wl.workInProgressRootExitStatus = "RootSuspendedAtTheShell"]
    ELSE
    LET current == w.fibers[completedWork].alternate
        returnFiber == w.fibers[completedWork].return
        Continue(done) ==
            LET w1 == done.w
            IN  IF done.ret # Null
                THEN [w1 EXCEPT !.wl.workInProgress = done.ret]
                ELSE IF returnFiber # Null
                THEN completeUnitOfWork_SkipsSiblings(
                         [w1 EXCEPT !.wl.workInProgress = returnFiber], returnFiber)
                ELSE [w1 EXCEPT !.wl.workInProgress = Null,
                                !.wl.workInProgressRootExitStatus =
                                    IF @ = "RootInProgress" THEN "RootCompleted" ELSE @]
    IN  The({ Continue(done) :
              done \in {completeWork(w, current, completedWork,
                                     w.wl.entangledRenderLanes)} })

(***************************************************************************)
(* completeUnitOfWork (ReactFiberWorkLoop.js, lines 583-634).              *)
(* unwindUnitOfWork is outside the sources: the Incomplete fiber's parent  *)
(* chain is left and the work loop ends without a completed root.          *)
(***************************************************************************)
RECURSIVE completeUnitOfWork(_, _)
completeUnitOfWork(w, completedWork) ==
    IF BitAnd(w.fibers[completedWork].flags, Incomplete) # NoFlags
    THEN [w EXCEPT !.wl.workInProgress = Null,
                   !.wl.workInProgressRootExitStatus = "RootSuspendedAtTheShell"]
    ELSE
    LET current == w.fibers[completedWork].alternate
        returnFiber == w.fibers[completedWork].return
        Continue(done) ==
            LET w1 == done.w
                siblingFiber == w1.fibers[completedWork].sibling
            IN  IF done.ret # Null
                THEN [w1 EXCEPT !.wl.workInProgress = done.ret]
                ELSE IF siblingFiber # Null
                THEN [w1 EXCEPT !.wl.workInProgress = siblingFiber]
                ELSE IF returnFiber # Null
                THEN completeUnitOfWork([w1 EXCEPT !.wl.workInProgress = returnFiber],
                                        returnFiber)
                ELSE [w1 EXCEPT !.wl.workInProgress = Null,
                                !.wl.workInProgressRootExitStatus =
                                    IF @ = "RootInProgress" THEN "RootCompleted" ELSE @]
    IN  The({ Continue(done) :
              done \in {completeWork(w, current, completedWork,
                                     w.wl.entangledRenderLanes)} })

(***************************************************************************)
(* performUnitOfWork (ReactFiberWorkLoop.js, lines 549-581).  When         *)
(* beginWork throws, the rest of the function does not run.                *)
(***************************************************************************)
performUnitOfWork(w, unitOfWork, beh) ==
    LET current == w.fibers[unitOfWork].alternate
        Continue(began) ==
            LET w1 == [began.w EXCEPT !.fibers[unitOfWork].memoizedProps =
                                          began.w.fibers[unitOfWork].pendingProps,
                                      !.gh.open = @ \ {unitOfWork}]
            IN  IF began.thrown # "" THEN [w |-> began.w, thrown |-> began.thrown]
                ELSE IF began.ret = Null
                THEN [w |-> completeUnitOfWork(w1, unitOfWork), thrown |-> ""]
                ELSE [w |-> [w1 EXCEPT !.wl.workInProgress = began.ret],
                      thrown |-> ""]
    IN  The({ Continue(began) :
              began \in {beginWork([w EXCEPT !.gh.begun = Append(@, unitOfWork),
                                             !.gh.contexts = @ \cup {w.wl.executionContext},
                                             !.gh.open = @ \cup {unitOfWork},
                                             !.gh.trace = Append(@, [op |-> "begin", fiber |-> unitOfWork])],
                                   current, unitOfWork,
                                   w.wl.entangledRenderLanes, beh)} })

(***************************************************************************)
(* ReactFiberRoot.js: FiberRootNode and createFiberRoot.                   *)
(***************************************************************************)

FiberRootNode ==
    [current |-> Null, timeoutHandle |-> noTimeout, cancelPendingCommit |-> Null,
     context |-> Null, pendingContext |-> Null, next |-> Null,
     callbackNode |-> Null, callbackPriority |-> NoLane,
     expirationTimes |-> [l \in {SyncLane, DefaultLane, TransitionLane} |-> NoTimestamp],
     pendingLanes |-> NoLanes, suspendedLanes |-> NoLanes, pingedLanes |-> NoLanes,
     warmLanes |-> NoLanes, expiredLanes |-> NoLanes,
     shellSuspendCounter |-> 0, entangledLanes |-> NoLanes]

InitialState == Obj(0, Undef)

createFiberRoot(w) ==
    LET root == Len(w.roots) + 1
        Attach(made) ==
            LET uninitializedFiber == made.ret
                w1 == [made.w EXCEPT
                         !.roots[root].current = uninitializedFiber,
                         !.fibers[uninitializedFiber].stateNode = root,
                         !.fibers[uninitializedFiber].memoizedState = InitialState]
            IN  Ret(initializeUpdateQueue(w1, uninitializedFiber), root)
    IN  The({ Attach(made) :
              made \in {createFiber([w EXCEPT !.roots = Append(@, FiberRootNode)],
                                    HostRoot, Null)} })

(***************************************************************************)
(* prepareFreshStack (ReactFiberWorkLoop.js, lines 25-109).                *)
(***************************************************************************)
\* getEntangledLanes (ReactFiberLane): no lane of the model is entangled.
getEntangledLanes(w, root, lanes) == lanes

\* resetWorkInProgressStack: the interrupted work is dropped.
resetWorkInProgressStack(w) == [w EXCEPT !.wl.workInProgress = Null]

prepareFreshStack(w, root, lanes) ==
    LET r == w.roots[root]
        w1 == IF r.timeoutHandle # noTimeout
              THEN [w EXCEPT !.roots[root].timeoutHandle = noTimeout]
              ELSE w
        w2 == IF r.cancelPendingCommit # Null
              THEN [w1 EXCEPT !.roots[root].cancelPendingCommit = Null]
              ELSE w1
        w3 == [resetWorkInProgressStack(w2) EXCEPT !.wl.workInProgressRoot = root,
                                                   !.gh.created = {}]
        Reset(made) ==
            LET rootWorkInProgress == made.ret
                w4 == [made.w EXCEPT
                 !.wl.workInProgress = rootWorkInProgress,
                 !.wl.workInProgressRootRenderLanes = lanes,
                 !.wl.workInProgressSuspendedReason = "NotSuspended",
                 !.wl.workInProgressThrownValue = NoValue,
                 !.wl.workInProgressRootDidSkipSuspendedSiblings = FALSE,
                 !.wl.workInProgressRootIsPrerendering =
                     checkIfRootIsPrerendering(made.w, root, lanes),
                 !.wl.workInProgressRootExitStatus = "RootInProgress",
                 !.wl.workInProgressRootSkippedLanes = NoLanes,
                 !.wl.workInProgressRootPingedLanes = NoLanes,
                 !.wl.entangledRenderLanes = getEntangledLanes(made.w, root, lanes),
                 !.gh.begun = <<>>, !.gh.completed = <<>>,
                 !.gh.trace = <<>>, !.gh.bailed = FALSE,
                 !.gh.open = {},
                 !.gh.abandoned = w.gh.processed,
                 !.gh.processed = FALSE]
            IN  Ret(finishQueueingConcurrentUpdates(w4), rootWorkInProgress)
    IN  The({ Reset(made) :
              made \in {createWorkInProgress(w3, r.current, Null)} })

(***************************************************************************)
(* The commit (specification 4.7): the finished tree becomes current, the  *)
(* host is mutated, the queued commit callbacks run.                       *)
(***************************************************************************)
commitRoot(w, root, finishedWork, lanes) ==
    LET queue == w.fibers[finishedWork].updateQueue
        remainingLanes == mergeLanes(
            mergeLanes(w.fibers[finishedWork].lanes, w.fibers[finishedWork].childLanes),
            w.cu.concurrentlyUpdatedLanes)
        w1 == [markRootFinished(w, root, remainingLanes) EXCEPT
                 !.roots[root].current = finishedWork,
                 !.env.hostMutations = @ + 1,
                 !.gh.processed = FALSE,
                 !.gh.abandoned = FALSE,
                 !.gh.fired = IF w.gh.processed THEN @ \o w.gh.called ELSE @,
                 !.gh.done = IF w.gh.processed
                             THEN @ \cup {w.gh.applied[i] : i \in DOMAIN w.gh.applied}
                             ELSE @]
    IN  IF queue = Null THEN w1
        ELSE [w1 EXCEPT !.queues[queue].callbacks = <<>>,
                        !.env.callbacksRun = @ \o w.queues[queue].callbacks]

(***************************************************************************)
(* The user code of the work loop's application: what a component does     *)
(* when it renders is decided by its element type.                         *)
(***************************************************************************)
PlainType == 1
FatalType == 2      \* throws an error nothing can capture
DataType == 3       \* reads data: throws the thenable until it has resolved
OtherType == 4      \* renders like PlainType

BehOf(w, unitOfWork) ==
    LET f == w.fibers[unitOfWork]
    IN  IF f.tag = HostRoot THEN NoBehaviour
        ELSE IF f.type = FatalType THEN [NoBehaviour EXCEPT !.throws = "fatal"]
        ELSE IF f.type = DataType /\ w.env.thenable # "resolved"
        THEN [NoBehaviour EXCEPT !.throws = "data"]
        ELSE NoBehaviour

isThenableResolved(w, thenable) == w.env.thenable = "resolved"

\* Mutant: the work loop moves back to the parent of the unit that threw.
handleThrow_MovesOn(w, root, thrownValue) ==
    [w EXCEPT !.wl.workInProgressThrownValue = thrownValue,
              !.wl.workInProgressSuspendedReason =
                  IF thrownValue = "data" THEN "SuspendedOnData" ELSE "SuspendedOnError",
              !.wl.workInProgress =
                  IF w.fibers[@].return # Null THEN w.fibers[@].return ELSE @,
              !.env.thenable = IF thrownValue = "data" /\ @ = "none" THEN "pending" ELSE @]

\* handleThrow: the thrown value and the reason of the suspension are
\* recorded; the thenable a component throws is from then on awaited.
handleThrow(w, root, thrownValue) ==
    [w EXCEPT !.wl.workInProgressThrownValue = thrownValue,
              !.wl.workInProgressSuspendedReason =
                  IF thrownValue = "data" THEN "SuspendedOnData" ELSE "SuspendedOnError",
              !.env.thenable = IF thrownValue = "data" /\ @ = "none" THEN "pending" ELSE @]

\* The fibers from a fiber up to the root of its tree.
RECURSIVE PathToRoot(_, _)
PathToRoot(w, fiber) ==
    IF fiber = Null THEN <<>>
    ELSE <<fiber>> \o PathToRoot(w, w.fibers[fiber].return)

\* throwAndUnwindWorkLoop: the application has no boundary, so the walk
\* upward marks every fiber Incomplete and ends at the root: an error is
\* fatal, a thenable suspends the root at the shell and will ping it.
throwAndUnwindWorkLoop(w, root, unitOfWork, thrownValue, reason) ==
    LET path == PathToRoot(w, unitOfWork)
        onPath == {path[i] : i \in DOMAIN path}
        w1 == [w EXCEPT
                 !.fibers = [f \in DOMAIN @ |->
                               IF f \in onPath
                               THEN [@[f] EXCEPT !.flags = BitOr(@, Incomplete),
                                                 !.subtreeFlags = NoFlags,
                                                 !.deletions = NoDeletions]
                               ELSE @[f]],
                 !.wl.workInProgress = Null,
                 !.gh.open = @ \ {unitOfWork},
                 !.gh.unwound = TRUE]
    IN  IF thrownValue = "data"
        THEN [w1 EXCEPT !.wl.workInProgressRootExitStatus = "RootSuspendedAtTheShell",
                        !.env.pingLanes = mergeLanes(@, w.wl.workInProgressRootRenderLanes)]
        ELSE [w1 EXCEPT !.wl.workInProgressRootExitStatus = "RootFatalErrored"]

\* replaySuspendedUnitOfWork: the unit that threw is begun again.
replaySuspendedUnitOfWork(w, unitOfWork) ==
    performUnitOfWork([w EXCEPT !.gh.replayed = unitOfWork],
                      unitOfWork, BehOf(w, unitOfWork))

(***************************************************************************)
(* The work loops (ReactFiberWorkLoop.js).  A loop returns the world and   *)
(* thrown: "" when it returns, else the value a unit of work threw.        *)
(***************************************************************************)
\* lines 640-644.
RECURSIVE workLoopSync(_)
workLoopSync(w) ==
    IF w.wl.workInProgress = Null THEN [w |-> w, thrown |-> ""]
    ELSE The({ IF did.thrown # "" THEN did ELSE workLoopSync(did.w) :
               did \in {performUnitOfWork(w, w.wl.workInProgress,
                                          BehOf(w, w.wl.workInProgress))} })

\* lines 524-538: at least one unit of work, then as many as the time
\* allows; budget is the number of units that fit before yieldAfter.
RECURSIVE workLoopConcurrentByScheduler(_, _)
workLoopConcurrent_TestFirst(w, budget) == workLoopConcurrentByScheduler(w, budget)

RECURSIVE workLoopConcurrent(_, _)
workLoopConcurrent(w, budget) ==
    IF w.wl.workInProgress = Null THEN [w |-> w, thrown |-> "", budget |-> budget]
    ELSE The({ IF did.thrown # "" THEN did @@ [budget |-> budget - 1]
               ELSE IF did.w.wl.workInProgress # Null /\ budget - 1 > 0
               THEN workLoopConcurrent(did.w, budget - 1)
               ELSE [w |-> did.w, thrown |-> "", budget |-> budget - 1] :
               did \in {performUnitOfWork(w, w.wl.workInProgress,
                                          BehOf(w, w.wl.workInProgress))} })

\* lines 540-546: units of work until the Scheduler's shouldYield(), which
\* turns true once the budget is used up.
workLoopConcurrentByScheduler(w, budget) ==
    IF w.wl.workInProgress = Null \/ budget <= 0
    THEN [w |-> w, thrown |-> "", budget |-> budget]
    ELSE The({ IF did.thrown # "" THEN did @@ [budget |-> budget - 1]
               ELSE workLoopConcurrentByScheduler(did.w, budget - 1) :
               did \in {performUnitOfWork(w, w.wl.workInProgress,
                                          BehOf(w, w.wl.workInProgress))} })

clearSuspension(w) ==
    [w EXCEPT !.wl.workInProgressSuspendedReason = "NotSuspended",
              !.wl.workInProgressThrownValue = NoValue]

\* lines 471-479: the work loop of the scheduling mode.  gh.loops records
\* the unit the loop was entered with, whether the time was used up
\* already, and the number of units it performed.
timeSlicedLoop(w, budget) ==
    The({ [looped EXCEPT !.w.gh.loops =
             Append(@, [throttled |-> w.env.enableThrottledScheduling,
                        exhausted |-> budget <= 0,
                        unit |-> w.wl.workInProgress,
                        units |-> Len(looped.w.gh.begun) - Len(w.gh.begun),
                        threw |-> looped.thrown # ""])] :
          looped \in {IF w.env.enableThrottledScheduling
                      THEN workLoopConcurrent(w, budget)
                      ELSE workLoopConcurrentByScheduler(w, budget)} })

\* The do-while of renderRootConcurrent (lines 320-483).
RECURSIVE concurrentLoop(_, _, _, _)
concurrentLoop(w, root, lanes, budget) ==
    LET reason == w.wl.workInProgressSuspendedReason
        unitOfWork == w.wl.workInProgress
        thrownValue == w.wl.workInProgressThrownValue
        suspended == reason # "NotSuspended" /\ unitOfWork # Null
        \* the cases of the switch that replay the unit (lines 349-352 and
        \* 402-406) and those that unwind it
        replays == /\ suspended
                   /\ reason \in {"SuspendedOnData", "SuspendedOnAction",
                                  "SuspendedAndReadyToContinue"}
                   /\ isThenableResolved(w, thrownValue)
        unwinds == /\ suspended
                   /\ ~replays
                   /\ reason \notin {"SuspendedOnData", "SuspendedOnAction",
                                     "SuspendedOnImmediate", "SuspendedOnHydration"}
        \* after the switch: the work loop, unless the switch left or threw
        Rest(looped) ==
            IF looped.leaves THEN looped.w
            ELSE IF looped.thrown # ""
            THEN concurrentLoop(handleThrow(looped.w, root, looped.thrown),
                                root, lanes, looped.budget)
            ELSE looped.w
    IN  The({ Rest(looped) :
              looped \in
                { IF res.leaves \/ res.thrown # ""
                  THEN res @@ [budget |-> budget]
                  ELSE timeSlicedLoop(res.w, budget) @@ [leaves |-> FALSE] :
                  res \in
                    \* the switch: leaves is TRUE at a break outer
                    { IF ~suspended THEN [w |-> w, thrown |-> "", leaves |-> FALSE]
                      ELSE IF replays
                      THEN replaySuspendedUnitOfWork(clearSuspension(w), unitOfWork)
                              @@ [leaves |-> FALSE]
                      ELSE IF unwinds
                      THEN [w |-> throwAndUnwindWorkLoop(clearSuspension(w), root,
                                                         unitOfWork, thrownValue,
                                                         reason),
                            thrown |-> "", leaves |-> FALSE]
                      ELSE IF reason \in {"SuspendedOnData", "SuspendedOnAction"}
                      THEN [w |-> [w EXCEPT !.env.onResolution = TRUE],
                            thrown |-> "", leaves |-> TRUE]
                      ELSE IF reason = "SuspendedOnImmediate"
                      THEN [w |-> [w EXCEPT !.wl.workInProgressSuspendedReason =
                                                "SuspendedAndReadyToContinue"],
                            thrown |-> "", leaves |-> TRUE]
                      ELSE \* SuspendedOnHydration
                           [w |-> [resetWorkInProgressStack(w) EXCEPT
                                     !.wl.workInProgressRootExitStatus =
                                         "RootSuspendedAtTheShell"],
                            thrown |-> "", leaves |-> TRUE] } } })

\* Mutant: a render function leaves with no context at all.
leaveRenderContext_Clears(w, prevExecutionContext) ==
    [w EXCEPT !.wl.executionContext = NoContext]

\* lines 492 and 801: executionContext = prevExecutionContext.
leaveRenderContext(w, prevExecutionContext) ==
    [w EXCEPT !.wl.executionContext = prevExecutionContext]

\* Mutant: every entry into a render function starts from a fresh stack.
NeedsFreshStack_Always(w, root, lanes) == TRUE

\* lines 289 and 673: a render of another root or of other lanes than the
\* one in progress starts from a fresh stack.
NeedsFreshStack_RootOnly(w, root, lanes) == w.wl.workInProgressRoot # root
NeedsFreshStack(w, root, lanes) ==
    w.wl.workInProgressRoot # root \/ w.wl.workInProgressRootRenderLanes # lanes

\* renderRootConcurrent (lines 277-520).
renderRootConcurrent(w, root, lanes, budget) ==
    LET prevExecutionContext == w.wl.executionContext
        w1 == [w EXCEPT !.wl.executionContext = BitOr(@, RenderContext),
                        !.gh.mode = "concurrent"]
        fresh == NeedsFreshStack(w1, root, lanes)
        w2 == IF fresh
              THEN [prepareFreshStack(w1, root, lanes).w EXCEPT !.gh.fresh = TRUE]
              ELSE [w1 EXCEPT !.wl.workInProgressRootIsPrerendering =
                                  checkIfRootIsPrerendering(w1, root, lanes)]
        Leave(w3) ==
            LET w4 == leaveRenderContext(w3, prevExecutionContext)
            IN  IF w4.wl.workInProgress # Null
                THEN Ret(w4, "RootInProgress")
                ELSE Ret(finishQueueingConcurrentUpdates(
                             [w4 EXCEPT !.wl.workInProgressRoot = Null,
                                        !.wl.workInProgressRootRenderLanes = NoLanes]),
                         w4.wl.workInProgressRootExitStatus)
    IN  The({ Leave(w3) : w3 \in {concurrentLoop(w2, root, lanes, budget)} })

\* The number of shell suspensions a root counts (the counter saturates).
MaxShellSuspends == 2

\* renderRootSync, lines 749-756, the test after throwAndUnwindWorkLoop in
\* the case of a suspension on data: the render of a prerendering root
\* yields.
YieldsForPrerendering(w, shouldYieldForPrerendering) ==
    /\ w.env.enableSiblingPrerendering
    /\ shouldYieldForPrerendering
    /\ w.wl.workInProgressRootIsPrerendering

\* The do-while of renderRootSync (lines 706-790).
RECURSIVE syncLoop(_, _, _, _, _)
syncLoop(w, root, lanes, shouldYieldForPrerendering, didSuspendInShell) ==
    LET reason == w.wl.workInProgressSuspendedReason
        unitOfWork == w.wl.workInProgress
        thrownValue == w.wl.workInProgressThrownValue
        suspended == reason # "NotSuspended" /\ unitOfWork # Null
        onData == reason \in {"SuspendedOnImmediate", "SuspendedOnData",
                              "SuspendedOnAction", "SuspendedOnDeprecatedThrowPromise"}
        \* getSuspenseHandler() is null: the application has no boundary
        inShell == didSuspendInShell \/ (suspended /\ onData)
        \* w1: the world after the switch, the unit unwound if one suspended
        Yields(w1) ==
            /\ suspended /\ onData
            /\ YieldsForPrerendering(w1, shouldYieldForPrerendering)
        Rest(looped) ==
            IF looped.yields
            THEN [w |-> looped.w, exitStatus |-> "RootInProgress",
                  didSuspendInShell |-> inShell]
            ELSE IF looped.thrown # ""
            THEN syncLoop(handleThrow(looped.w, root, looped.thrown),
                          root, lanes, shouldYieldForPrerendering, inShell)
            ELSE [w |-> looped.w,
                  exitStatus |-> looped.w.wl.workInProgressRootExitStatus,
                  didSuspendInShell |-> inShell]
    IN  IF suspended /\ reason = "SuspendedOnHydration"
        THEN [w |-> resetWorkInProgressStack(w),
              exitStatus |-> "RootSuspendedAtTheShell",
              didSuspendInShell |-> didSuspendInShell]
        ELSE The({ Rest(looped) :
                   looped \in
                     { IF Yields(w1)
                       THEN [w |-> w1, thrown |-> "", yields |-> TRUE]
                       ELSE workLoopSync(w1) @@ [yields |-> FALSE] :
                       w1 \in {IF suspended
                               THEN throwAndUnwindWorkLoop(clearSuspension(w), root,
                                                           unitOfWork, thrownValue,
                                                           reason)
                               ELSE w} } })

\* Mutant: the root and the lanes of a render that has ended stay in place.
syncRenderEnded_KeepsRoot(w) == finishQueueingConcurrentUpdates(w)

\* renderRootSync, lines 812-821, the else branch of the last test: nothing
\* is in progress any more.
syncRenderEnded(w) ==
    finishQueueingConcurrentUpdates(
        [w EXCEPT !.wl.workInProgressRoot = Null,
                  !.wl.workInProgressRootRenderLanes = NoLanes])

\* renderRootSync (lines 655-825).
renderRootSync(w, root, lanes, shouldYieldForPrerendering) ==
    LET prevExecutionContext == w.wl.executionContext
        w1 == [w EXCEPT !.wl.executionContext = BitOr(@, RenderContext),
                        !.gh.mode = "sync"]
        fresh == NeedsFreshStack(w1, root, lanes)
        w2 == IF fresh
              THEN [prepareFreshStack(w1, root, lanes).w EXCEPT !.gh.fresh = TRUE]
              ELSE w1
        Leave(done) ==
            LET w3 == [done.w EXCEPT
                         !.roots[root].shellSuspendCounter =
                             IF done.didSuspendInShell /\ @ < MaxShellSuspends
                             THEN @ + 1 ELSE @]
                w4 == leaveRenderContext(w3, prevExecutionContext)
            IN  IF w4.wl.workInProgress # Null
                THEN Ret(w4, done.exitStatus)
                ELSE Ret(syncRenderEnded(w4), done.exitStatus)
    IN  The({ Leave(done) :
              done \in {syncLoop(w2, root, lanes, shouldYieldForPrerendering,
                                 FALSE)} })

\* finishConcurrentRender: a completed tree is committed; a tree that
\* suspended is not, its lanes wait for the data.
finishConcurrentRender(w, root, exitStatus, finishedWork, lanes) ==
    LET w1 == [w EXCEPT !.gh.finished = exitStatus]
    IN  IF exitStatus = "RootCompleted"
        THEN commitRoot(w1, root, finishedWork, lanes)
        ELSE markRootSuspended(w1, root, lanes, NoLane, TRUE)

\* Mutant: an expired lane does not stop the time slicing.
ShouldTimeSlice_IgnoreExpired(w, root, lanes, forceSync) ==
    \/ (~forceSync /\ ~includesBlockingLane(lanes))
    \/ (w.env.enableSiblingPrerendering /\ checkIfRootIsPrerendering(w, root, lanes))

\* performWorkOnRoot, lines 153-157.
ShouldTimeSlice(w, root, lanes, forceSync) ==
    \/ (/\ ~forceSync
        /\ ~includesBlockingLane(lanes)
        /\ ~includesExpiredLane(w, root, lanes))
    \/ (w.env.enableSiblingPrerendering /\ checkIfRootIsPrerendering(w, root, lanes))

\* Mutant: a render that ended with a fatal error goes on to the commit step.
EndsWithoutFinish_NotFatal(exitStatus) == exitStatus = "RootInProgress"

\* performWorkOnRoot, lines 169 and 247: the exit statuses that leave the
\* loop before finishConcurrentRender.
EndsWithoutFinish(exitStatus) ==
    exitStatus = "RootInProgress" \/ exitStatus = "RootFatalErrored"

\* A commit callback of the host that asks for a flush of the sync work
\* (flushSync) when it runs.
FlushSyncCallback == 2

RECURSIVE flushSyncWorkAcrossRoots_impl(_, _, _)
\* The commit callbacks that have run since w0 ask for what they ask.
afterCommitCallbacks(w0, w) ==
    LET ran == SubSeq(w.env.callbacksRun, Len(w0.env.callbacksRun) + 1,
                      Len(w.env.callbacksRun))
    IN  IF \E i \in DOMAIN ran : ran[i] = FlushSyncCallback
        THEN flushSyncWorkAcrossRoots_impl(w, NoLanes, FALSE)
        ELSE w

\* Mutant: only a render in progress counts as already working.
IsAlreadyWorking_RenderOnly(w) ==
    BitAnd(w.wl.executionContext, RenderContext) # NoContext

\* performWorkOnRoot, line 126.
IsAlreadyWorking(w) ==
    BitAnd(w.wl.executionContext, BitOr(RenderContext, CommitContext)) # NoContext

AlreadyWorkingError == "Should not already be working."

\* performWorkOnRoot (lines 119-274).  budget: the units of work the
\* Scheduler lets a time-sliced render do before it yields.  The error
\* thrown at line 127 is recorded in gh.thrown.
performWorkOnRoot(w, root, lanes, forceSync, budget) ==
    IF IsAlreadyWorking(w) THEN [w EXCEPT !.gh.thrown = AlreadyWorkingError]
    ELSE
    LET w0 == [w EXCEPT !.gh.fresh = FALSE, !.gh.replayed = Null,
                        !.gh.contexts = {},
                        !.gh.unwound = FALSE, !.gh.finished = NoValue,
                        !.gh.mode = NoValue]
        shouldTimeSlice == ShouldTimeSlice(w0, root, lanes, forceSync)
        Finish(rendered) ==
            LET exitStatus == rendered.ret
                w1 == rendered.w
                finishedWork == w1.fibers[w1.roots[root].current].alternate
            IN  IF exitStatus = "RootInProgress"
                THEN IF /\ w1.env.enableSiblingPrerendering
                        /\ w1.wl.workInProgressRootIsPrerendering
                        /\ ~shouldTimeSlice
                     THEN markRootSuspended(w1, root, lanes, NoLane, FALSE)
                     ELSE w1
                ELSE IF EndsWithoutFinish(exitStatus)
                THEN markRootSuspended(prepareFreshStack(w1, root, NoLanes).w,
                                       root, lanes, NoLane, TRUE)
                ELSE finishConcurrentRender(w1, root, exitStatus, finishedWork,
                                            lanes)
        Call(rendered, w2) ==
            LET exitStatus == rendered.ret
                w1 == rendered.w
            IN  [root |-> root, lanes |-> lanes, forceSync |-> forceSync,
                 flushing |-> w.rs.isFlushingWork,
                 blocking |-> includesBlockingLane(lanes),
                 expired |-> includesExpiredLane(w, root, lanes),
                 prerendering |-> checkIfRootIsPrerendering(w, root, lanes),
                 sameStack |-> /\ w.wl.workInProgressRoot = root
                               /\ w.wl.workInProgressRootRenderLanes = lanes,
                 entryUnit |-> w.wl.workInProgress,
                 begunBefore |-> w.gh.begun, begunAfter |-> w1.gh.begun,
                 entryReason |-> w.wl.workInProgressSuspendedReason,
                 entryThenable |-> w.env.thenable,
                 mode |-> w2.gh.mode,
                 exitStatus |-> exitStatus,
                 exitReason |-> w1.wl.workInProgressSuspendedReason,
                 exitUnit |-> w1.wl.workInProgress,
                 exitRoot |-> w1.wl.workInProgressRoot,
                 exitLanes |-> w1.wl.workInProgressRootRenderLanes,
                 exitPrerendering |-> w1.wl.workInProgressRootIsPrerendering,
                 exitContext |-> w1.wl.executionContext,
                 entryContext |-> w.wl.executionContext,
                 unitContexts |-> w1.gh.contexts,
                 open |-> w1.gh.open,
                 fresh |-> w2.gh.fresh, replayed |-> w2.gh.replayed,
                 unwound |-> w2.gh.unwound, finished |-> w2.gh.finished,
                 mutations |-> w2.env.hostMutations - w.env.hostMutations,
                 currentBefore |-> w.roots[root].current,
                 currentAfter |-> w2.roots[root].current,
                 pendingBefore |-> w.roots[root].pendingLanes,
                 expiredBefore |-> w.roots[root].expiredLanes,
                 pendingAfter |-> w2.roots[root].pendingLanes,
                 preempt |-> w.gh.preempt]
    IN  The({ The({ [ensureRootIsScheduled(w2, root) EXCEPT
                       !.gh.calls = Append(@, Call(rendered, w2))] :
                    w2 \in {afterCommitCallbacks(w, Finish(rendered))} }) :
              rendered \in {IF shouldTimeSlice
                            THEN renderRootConcurrent(w0, root, lanes, budget)
                            ELSE renderRootSync(w0, root, lanes, TRUE)} })

(***************************************************************************)
(* ReactFiberRootScheduler.js, continued: the microtask and the sync flush.*)
(***************************************************************************)
\* lines 333-351; there are no passive effects to flush.
performSyncWorkOnRoot(w, root, lanes) ==
    performWorkOnRoot(w, root, lanes, TRUE, 1)

\* The roots of the schedule, first to last: the list that starts at
\* firstScheduledRoot and follows next, cut after fuel roots.
RECURSIVE RootsAlong(_, _, _)
RootsAlong(w, root, fuel) ==
    IF root = Null \/ fuel = 0 THEN <<>>
    ELSE <<root>> \o RootsAlong(w, w.roots[root].next, fuel - 1)

ScheduledList(w) == RootsAlong(w, w.rs.firstScheduledRoot, Len(w.roots) + 1)

\* Mutant: lanes that have expired are flushed like Sync lanes.
ShouldFlushSync_Expired(w, root, nextLanes) ==
    /\ includesSyncLane(nextLanes) \/ includesExpiredLane(w, root, nextLanes)
    /\ ~checkIfRootIsPrerendering(w, root, nextLanes)

\* lines 309-313.
ShouldFlushSync(w, root, nextLanes) ==
    /\ includesSyncLane(nextLanes)
    /\ ~checkIfRootIsPrerendering(w, root, nextLanes)

\* lines 293-306: the lanes the flush finds for a root.
flushLanesOf(w, root) ==
    getNextLanes(w, root,
                 IF root = w.wl.workInProgressRoot
                 THEN w.wl.workInProgressRootRenderLanes ELSE NoLanes,
                 \/ w.roots[root].cancelPendingCommit # Null
                 \/ w.roots[root].timeoutHandle # noTimeout)

\* The roots of the schedule whose lanes the flush would render.
SyncRoots(w) ==
    {ScheduledList(w)[i] : i \in {j \in DOMAIN ScheduledList(w) :
        ShouldFlushSync(w, ScheduledList(w)[j],
                        flushLanesOf(w, ScheduledList(w)[j]))}}

\* The inner while of flushSyncWorkAcrossRoots_impl (lines 277-322), with
\* no sync transition lanes.  gh.flushed: the roots looked at, in order.
RECURSIVE flushRootsFrom(_, _, _)
flushRootsFrom(w, root, didPerformSomeWork) ==
    IF root = Null THEN [w |-> w, didPerformSomeWork |-> didPerformSomeWork]
    ELSE LET r == w.roots[root]
             rootHasPendingCommit ==
                 r.cancelPendingCommit # Null \/ r.timeoutHandle # noTimeout
             Looked(w2, nextLanes, flushes) ==
                 [w |-> [w2 EXCEPT !.gh.flushed = Append(@,
                           [root |-> root, nextLanes |-> nextLanes,
                            prerendering |->
                                checkIfRootIsPrerendering(w, root, nextLanes),
                            expired |-> includesExpiredLane(w, root, nextLanes),
                            callsBefore |-> Len(w.gh.calls),
                            callsAfter |-> Len(w2.gh.calls)])],
                  flushes |-> flushes]
         IN  The({ flushRootsFrom(did.w, did.w.roots[root].next,
                                  didPerformSomeWork \/ did.flushes) :
                   did \in
                     { IF ShouldFlushSync(w, root, nextLanes)
                       THEN Looked(performSyncWorkOnRoot(w, root, nextLanes),
                                   nextLanes, TRUE)
                       ELSE Looked(w, nextLanes, FALSE) :
                       nextLanes \in
                         {getNextLanes(w, root,
                                       IF root = w.wl.workInProgressRoot
                                       THEN w.wl.workInProgressRootRenderLanes
                                       ELSE NoLanes,
                                       rootHasPendingCommit)} } })

\* The do-while (lines 274-323).  gh.passes: the list each pass scans, the
\* roots it looks at (those of gh.flushed after from, up to to) and whether
\* it performed some work.
RECURSIVE flushPasses(_)
flushPasses(w) ==
    LET Passed(pass) ==
            [pass.w EXCEPT !.gh.passes = Append(@,
               [list |-> ScheduledList(w),
                from |-> Len(w.gh.flushed), to |-> Len(pass.w.gh.flushed),
                didPerformSomeWork |-> pass.didPerformSomeWork])]
    IN  The({ IF pass.didPerformSomeWork THEN flushPasses(Passed(pass))
              ELSE Passed(pass) :
              pass \in {flushRootsFrom(w, w.rs.firstScheduledRoot, FALSE)} })

\* Mutant: a flush is begun whether or not one is going on.
flushSyncWorkAcrossRoots_impl_Reentrant(w, syncTransitionLanes, onlyLegacy) ==
    LET Called(w2) ==
            [w2 EXCEPT !.gh.flushes = Append(@,
               [flushing |-> w.rs.isFlushingWork,
                mightHavePendingSyncWork |-> w.rs.mightHavePendingSyncWork,
                syncRoots |-> SyncRoots(w),
                callsBefore |-> Len(w.gh.calls), callsAfter |-> Len(w2.gh.calls),
                passesBefore |-> Len(w.gh.passes), passesAfter |-> Len(w2.gh.passes),
                flushingAfter |-> w2.rs.isFlushingWork])]
    IN  IF ~w.rs.mightHavePendingSyncWork THEN Called(w)
        ELSE The({ Called([w2 EXCEPT !.rs.isFlushingWork = FALSE]) :
                   w2 \in {flushPasses([w EXCEPT !.rs.isFlushingWork = TRUE])} })

\* lines 258-325.  gh.flushes: the calls, each with the flags it found and
\* what it has done when it returns.
flushSyncWorkAcrossRoots_impl(w, syncTransitionLanes, onlyLegacy) ==
    LET Called(w2) ==
            [w2 EXCEPT !.gh.flushes = Append(@,
               [flushing |-> w.rs.isFlushingWork,
                mightHavePendingSyncWork |-> w.rs.mightHavePendingSyncWork,
                syncRoots |-> SyncRoots(w),
                callsBefore |-> Len(w.gh.calls), callsAfter |-> Len(w2.gh.calls),
                passesBefore |-> Len(w.gh.passes), passesAfter |-> Len(w2.gh.passes),
                flushingAfter |-> w2.rs.isFlushingWork])]
    IN  IF w.rs.isFlushingWork THEN Called(w)
        ELSE IF ~w.rs.mightHavePendingSyncWork THEN Called(w)
        ELSE The({ Called([w2 EXCEPT !.rs.isFlushingWork = FALSE]) :
                   w2 \in {flushPasses([w EXCEPT !.rs.isFlushingWork = TRUE])} })

\* Mutant: the root is unlinked as if it were the first of the list.
unlinkRoot_First(w, prev, root, next) ==
    LET w1 == [w EXCEPT !.roots[root].next = Null]
        w2 == [w1 EXCEPT !.rs.firstScheduledRoot = next]
    IN  IF next = Null THEN [w2 EXCEPT !.rs.lastScheduledRoot = prev] ELSE w2

\* lines 214-228: the root leaves the list.
unlinkRoot(w, prev, root, next) ==
    LET w1 == [w EXCEPT !.roots[root].next = Null]
        w2 == IF prev = Null
              THEN [w1 EXCEPT !.rs.firstScheduledRoot = next]
              ELSE [w1 EXCEPT !.roots[prev].next = next]
    IN  IF next = Null THEN [w2 EXCEPT !.rs.lastScheduledRoot = prev] ELSE w2

\* Mutant: the walk of the schedule leaves the flag as it is.
NotesSyncWork_Not(w, nextLanes) == w

\* lines 235-242: a root with Sync work is noted for the flush.
NotesSyncWork(w, nextLanes) ==
    IF includesSyncLane(nextLanes)
    THEN [w EXCEPT !.rs.mightHavePendingSyncWork = TRUE]
    ELSE w

\* The while of processRootScheduleInMicrotask (lines 208-246).
RECURSIVE scheduleRootsFrom(_, _, _, _)
scheduleRootsFrom(w, prev, root, currentTime) ==
    IF root = Null THEN w
    ELSE LET next == w.roots[root].next
             Step(scheduled) ==
                 LET nextLanes == scheduled.ret
                     w3 == unlinkRoot(scheduled.w, prev, root, next)
                     w4 == NotesSyncWork(scheduled.w, nextLanes)
                 IN  IF nextLanes = NoLane
                     THEN scheduleRootsFrom(w3, prev, next, currentTime)
                     ELSE scheduleRootsFrom(w4, root, next, currentTime)
         IN  The({ Step(scheduled) :
                   scheduled \in {scheduleTaskForRootDuringMicrotask(
                                     w, root, currentTime)} })

\* lines 186-250; no transition is made eagerly (syncTransitionLanes is
\* NoLanes).  gh.walk: the schedule before and after the while.
processRootScheduleInMicrotask(w) ==
    LET w1 == [w EXCEPT !.rs.didScheduleMicrotask = FALSE,
                        !.rs.mightHavePendingSyncWork = FALSE]
        currentTime == w1.env.now
        Walked(w2) == [w2 EXCEPT !.gh.walk = [before |-> ScheduledList(w1),
                                              after |-> ScheduledList(w2),
                                              logged |-> Len(w2.gh.scheduled)]]
    IN  The({ flushSyncWorkAcrossRoots_impl(Walked(w2), NoLanes, FALSE) :
              w2 \in {scheduleRootsFrom(w1, Null, w1.rs.firstScheduledRoot,
                                        currentTime)} })

\* performWorkOnRootViaSchedulerTask, the callback scheduled at line 168:
\* the lanes are chosen again, rendered, the root is scheduled again, and
\* the task asks to go on (returns a continuation) when it is still the
\* root's callback.
performWorkOnRootViaSchedulerTask(w, root, didTimeout, budget) ==
    LET r == w.roots[root]
        originalCallbackNode == r.callbackNode
        rootHasPendingCommit ==
            r.cancelPendingCommit # Null \/ r.timeoutHandle # noTimeout
        forceSync == didTimeout
        continues(w2) == /\ w2.roots[root].callbackNode # Null
                         /\ w2.roots[root].callbackNode = originalCallbackNode
    IN  The({ Ret(did.w, did.worked /\ continues(did.w)) :
              did \in
                { IF lanes = NoLanes THEN [w |-> w, worked |-> FALSE]
                  ELSE [w |-> The({ scheduleTaskForRootDuringMicrotask(
                                      w1, root, w1.env.now).w :
                                    w1 \in {performWorkOnRoot(w, root, lanes,
                                                              forceSync, budget)} }),
                        worked |-> TRUE] :
                  lanes \in {getNextLanes(w, root,
                                          IF root = w.wl.workInProgressRoot
                                          THEN w.wl.workInProgressRootRenderLanes
                                          ELSE NoLanes,
                                          rootHasPendingCommit)} } })

\* The Scheduler runs a callback: the task stays alive when the callback
\* returns a continuation and is finished otherwise.
runTask(w, task, didTimeout, budget) ==
    The({ IF done.ret THEN done.w
          ELSE [done.w EXCEPT !.env.tasks = @ \ {task}] :
          done \in {performWorkOnRootViaSchedulerTask(w, task.root, didTimeout,
                                                      budget)} })

(***************************************************************************)
(* Scheduling an update (work loop) and updateContainer                    *)
(* (ReactFiberReconciler.js, lines 74-149).                                *)
(***************************************************************************)
\* scheduleUpdateOnFiber: the lane becomes pending on the root and the
\* root is scheduled.
scheduleUpdateOnFiber(w, root, fiber, lane) ==
    ensureRootIsScheduled(markRootUpdated(w, root, lane), root)

\* getContextForSubtree(null)
emptyContextObject == 1

\* lines 106-149; entangleTransitions entangles nothing in the model.
updateContainerImpl(w, rootFiber, lane, element, container, parentComponent, callback) ==
    LET context == emptyContextObject
        w1 == IF w.roots[container].context = Null
              THEN [w EXCEPT !.roots[container].context = context]
              ELSE [w EXCEPT !.roots[container].pendingContext = context]
        Enqueue(made) ==
            LET update == made.ret
                w2 == [made.w EXCEPT
                         !.updates[update].payload = ObjPayload(Obj(element, Undef)),
                         !.updates[update].callback =
                             IF callback # Null THEN callback ELSE @,
                         !.gh.enq = @ + 1]
            IN  enqueueUpdate(w2, rootFiber, update, lane)
        Schedule(queued) ==
            LET root == queued.ret
            IN  IF root # Null
                THEN scheduleUpdateOnFiber(queued.w, root, rootFiber, lane)
                ELSE queued.w
    IN  The({ Schedule(queued) :
              queued \in { Enqueue(made) : made \in {createUpdate(w1, lane)} } })

\* lines 74-94; eventLane is the priority of the event that calls it.
updateContainer(w, element, container, parentComponent, callback, eventLane) ==
    LET current == w.roots[container].current
        lane == requestUpdateLane(w, eventLane)
    IN  Ret(updateContainerImpl(w, current, lane, element, container,
                                parentComponent, callback),
            lane)

\* The thenable resolves and calls its listeners: onResolution
\* (ReactFiberWorkLoop.js, lines 357-366) and the ping of the root that
\* suspended on it.
resolveThenable(w, root) ==
    LET w1 == [w EXCEPT !.env.thenable = "resolved",
                        !.env.onResolution = FALSE,
                        !.env.pingLanes = NoLanes]
        w2 == IF w.env.onResolution
              THEN ensureRootIsScheduled(
                     IF /\ isWorkLoopSuspendedOnData(w1)
                        /\ w1.wl.workInProgressRoot = root
                     THEN [w1 EXCEPT !.wl.workInProgressSuspendedReason =
                                         "SuspendedAndReadyToContinue"]
                     ELSE w1,
                     root)
              ELSE w1
    IN  IF w.env.pingLanes # NoLanes
        THEN ensureRootIsScheduled(markRootPinged(w2, root, w.env.pingLanes), root)
        ELSE w2

(***************************************************************************)
(* The state after module initialisation, for an application whose         *)
(* element tree has the given shape.                                       *)
(***************************************************************************)
EmptyWorld(shape) ==
    [fibers |-> <<>>, queues |-> <<>>, shareds |-> <<>>, updates |-> <<>>,
     roots |-> <<>>,
     cu |-> [concurrentQueues |-> <<>>, concurrentlyUpdatedLanes |-> NoLanes],
     cq |-> [hasForceUpdate |-> FALSE, didReadFromEntangledAsyncAction |-> FALSE],
     wl |-> [executionContext |-> NoContext,
             workInProgressRoot |-> Null,
             workInProgress |-> Null,
             workInProgressRootRenderLanes |-> NoLanes,
             workInProgressSuspendedReason |-> "NotSuspended",
             workInProgressThrownValue |-> NoValue,
             workInProgressRootDidSkipSuspendedSiblings |-> FALSE,
             workInProgressRootIsPrerendering |-> FALSE,
             workInProgressRootExitStatus |-> "RootInProgress",
             workInProgressRootSkippedLanes |-> NoLanes,
             workInProgressRootPingedLanes |-> NoLanes,
             entangledRenderLanes |-> NoLanes,
             didReceiveUpdate |-> FALSE],
     rs |-> [firstScheduledRoot |-> Null, lastScheduledRoot |-> Null,
             didScheduleMicrotask |-> FALSE, mightHavePendingSyncWork |-> FALSE,
             isFlushingWork |-> FALSE],
     env |-> [shape |-> shape, hostMutations |-> 0, callbacksRun |-> <<>>,
              now |-> 0, microtask |-> 0, tasks |-> {}, lastNode |-> Null,
              thenable |-> "none", onResolution |-> FALSE, pingLanes |-> NoLanes,
              enableSiblingPrerendering |-> TRUE,
              legacyContextChanged |-> FALSE,
              enableThrottledScheduling |-> FALSE],
     gh |-> [ring |-> <<>>, all |-> <<>>, hidden |-> {}, enq |-> 0,
             applied |-> <<>>, skipped |-> <<>>, everSkipped |-> {},
             skippedLanes |-> <<>>, store |-> <<>>,
             steps |-> <<>>, called |-> <<>>, fired |-> <<>>, done |-> {},
             begin |-> <<>>,
             before |-> <<>>, beforeLanes |-> <<>>, baseBefore |-> NullObj,
             processed |-> FALSE, abandoned |-> FALSE,
             during |-> <<>>,
             begun |-> <<>>, completed |-> <<>>, created |-> {},
             trace |-> <<>>, bailed |-> FALSE,
             marked |-> {}, open |-> {}, scheduled |-> <<>>,
             walk |-> [before |-> <<>>, after |-> <<>>, logged |-> 0],
             flushed |-> <<>>, passes |-> <<>>, flushes |-> <<>>,
             renders |-> 0,
             fresh |-> FALSE, replayed |-> Null, unwound |-> FALSE,
             finished |-> NoValue, mode |-> NoValue, calls |-> <<>>,
             loops |-> <<>>, contexts |-> {},
             preempt |-> FALSE, thrown |-> NoValue,
             sched |-> [now |-> 0, pending |-> NoLanes, expired |-> NoLanes,
                        times |-> FiberRootNode.expirationTimes]]]

TheRoot == 1

(***************************************************************************)
(* SpecQueue: one container whose root renders one component.  Updates of  *)
(* every tag are set on the root's queue from events and from the          *)
(* component's render; renders of any lanes start, proceed one unit of     *)
(* work at a time, are abandoned by the start of another, or commit.       *)
(***************************************************************************)
QueueShape == [t \in {1} |-> <<>>]

\* The events of the model: the update an event handler sets, and the
\* lane of the event.
QueueEvents ==
    { [inp |-> Input(UpdateState, FnPayload("toggle"), Null, FALSE), lane |-> SyncLane],
      [inp |-> Input(UpdateState, FnPayload("toggle"), Null, FALSE), lane |-> TransitionLane],
      [inp |-> Input(UpdateState, FnPayload("copy"), 1, TRUE), lane |-> TransitionLane],
      [inp |-> Input(UpdateState, ObjPayload(Obj(1, Undef)), 1, FALSE), lane |-> TransitionLane],
      [inp |-> Input(ReplaceState, ObjPayload(Obj(Undef, 1)), 1, FALSE), lane |-> SyncLane] }

QueueRenderLanes == {SyncLane, TransitionLane, mergeLanes(SyncLane, TransitionLane)}

\* What the component's render may do: nothing, or update the container
\* twice.
QueueBehaviours ==
    LET t == Input(UpdateState, FnPayload("toggle"), Null, FALSE)
        f == Input(ForceUpdate, NullPayload, Null, FALSE)
    IN  { [NoBehaviour EXCEPT !.updates = us] : us \in {<<>>, <<t, f>>} }

InitQueue == Is(createFiberRoot(EmptyWorld(QueueShape)).w)

\* An event handler sets state.
QSetState ==
    /\ gh.enq < MaxUpdates
    /\ \E e \in QueueEvents :
         Becomes(setState(World, roots[TheRoot].current, e.inp, e.lane))

\* A render of the given lanes starts; a render in progress is abandoned.
QRender ==
    /\ gh.renders < MaxRenders
    /\ \E lanes \in QueueRenderLanes :
         Becomes([prepareFreshStack(World, TheRoot, lanes).w
                    EXCEPT !.gh.renders = @ + 1])

\* The tail of a render function once the work loop has ended.
finishRender(w) ==
    finishQueueingConcurrentUpdates(
        [w EXCEPT !.wl.workInProgressRoot = Null,
                  !.wl.workInProgressRootRenderLanes = NoLanes])

\* One unit of work; the unit that completes the tree commits it.
QWork ==
    /\ wl.workInProgress # Null
    /\ \E beh \in QueueBehaviours :
         /\ gh.enq + Len(beh.updates) <= MaxUpdates
         /\ beh.updates # <<>> => fibers[wl.workInProgress].tag # HostRoot
         /\ LET lanes == wl.workInProgressRootRenderLanes
                w0 == [World EXCEPT !.wl.executionContext = RenderContext]
            IN  \E w1 \in {[performUnitOfWork(w0, wl.workInProgress, beh).w
                               EXCEPT !.wl.executionContext = NoContext]} :
                  IF w1.wl.workInProgress # Null
                  THEN Becomes(w1)
                  ELSE Becomes(commitRoot(finishRender(w1), TheRoot,
                                          w1.fibers[w1.roots[TheRoot].current].alternate,
                                          lanes))

NextQueue == QSetState \/ QRender \/ QWork

SpecQueue == InitQueue /\ [][NextQueue]_vars

(***************************************************************************)
(* SpecFiber: the double buffer.  The container shows nothing, a tree of   *)
(* two nested elements (type 1 over type 2) or a single element (type 3);  *)
(* updates replace what it shows, and the host components produce effect   *)
(* flags, static and not.  Renders start, proceed one unit of work at a    *)
(* time, are abandoned by the start of another, or commit.                 *)
(***************************************************************************)
FiberShape == [t \in {1, 2, 3} |-> IF t = 1 THEN <<2>> ELSE <<>>]

FiberEvents ==
    { [inp |-> Input(UpdateState, ObjPayload(Obj(1, Undef)), Null, FALSE), lane |-> SyncLane],
      [inp |-> Input(UpdateState, ObjPayload(Obj(3, Undef)), Null, FALSE), lane |-> TransitionLane] }

FiberRenderLanes == {SyncLane, mergeLanes(SyncLane, TransitionLane)}

FiberBehaviours ==
    { [NoBehaviour EXCEPT !.flags = fl] : fl \in {NoFlags, BitOr(Update, LayoutStatic)} }

InitFiber == Is(createFiberRoot(EmptyWorld(FiberShape)).w)

\* An event handler replaces the element of the container.
FSetState ==
    /\ gh.enq < MaxFiberUpdates
    /\ \E e \in FiberEvents :
         Becomes(setState(World, roots[TheRoot].current, e.inp, e.lane))

\* A render of the given lanes starts; a render in progress is abandoned.
FRender ==
    /\ gh.renders < MaxFiberRenders
    /\ \E lanes \in FiberRenderLanes :
         Becomes([prepareFreshStack(World, TheRoot, lanes).w
                    EXCEPT !.gh.renders = @ + 1])

\* One unit of work; the unit that completes the tree commits it.
FWork ==
    /\ wl.workInProgress # Null
    /\ \E beh \in FiberBehaviours :
         /\ beh.flags # NoFlags => fibers[wl.workInProgress].tag # HostRoot
         /\ LET lanes == wl.workInProgressRootRenderLanes
                w0 == [World EXCEPT !.wl.executionContext = RenderContext]
            IN  \E w1 \in {[performUnitOfWork(w0, wl.workInProgress, beh).w
                               EXCEPT !.wl.executionContext = NoContext]} :
                  IF w1.wl.workInProgress # Null
                  THEN Becomes(w1)
                  ELSE Becomes(commitRoot(finishRender(w1), TheRoot,
                                          w1.fibers[w1.roots[TheRoot].current].alternate,
                                          lanes))

NextFiber == FSetState \/ FRender \/ FWork

SpecFiber == InitFiber /\ [][NextFiber]_vars

(***************************************************************************)
(* SpecLoop: the scheduler and the work loop.  Events update the container *)
(* at the priority of the event; the microtask, the Scheduler's task, the  *)
(* clock and the thenable take their steps.  A component renders plainly,  *)
(* throws an error or waits for data, by its element type.  The feature    *)
(* flags are those of the build.                                           *)
(***************************************************************************)
LoopShape == [t \in {PlainType, FatalType, DataType, OtherType} |-> <<>>]

Event(element, lane) == [element |-> element, lane |-> lane]

LoopEvents ==
    { Event(PlainType, SyncLane), Event(OtherType, TransitionLane),
      Event(DataType, TransitionLane), Event(FatalType, DefaultLane) }

InitLoop ==
    \E prerender \in BOOLEAN, throttled \in BOOLEAN :
       Is([createFiberRoot(EmptyWorld(LoopShape)).w EXCEPT
             !.env.enableSiblingPrerendering = prerender,
             !.env.enableThrottledScheduling = throttled])

\* What an action starts from and ends with: the calls of performWorkOnRoot
\* are those of the action; a Sync update stops preempting once committed.
Started ==
    [World EXCEPT !.gh.calls = <<>>, !.gh.scheduled = <<>>, !.gh.loops = <<>>,
                  !.gh.flushed = <<>>, !.gh.passes = <<>>, !.gh.flushes = <<>>,
                  !.gh.walk = [before |-> <<>>, after |-> <<>>, logged |-> 0]]

Ended(w) ==
    [w EXCEPT !.gh.preempt =
                  @ /\ includesSyncLane(w.roots[TheRoot].pendingLanes)]

\* The renders of the model allocate no more than the heap holds.
HeapHasRoom == Len(fibers) < MaxFibers /\ Len(updates) < MaxHeapUpdates

\* An event handler updates the container.
UpdateFrom(events, max) ==
    /\ gh.enq < max
    /\ \E e \in events :
         LET preempts == /\ e.lane = SyncLane
                         /\ BitAnd(roots[TheRoot].pendingLanes, TransitionLane) # NoLanes
         IN  Becomes([updateContainer(Started, e.element, TheRoot, Null, Null,
                                      e.lane).w
                        EXCEPT !.gh.preempt = @ \/ preempts])

LUpdate == UpdateFrom(LoopEvents, MaxLoopUpdates)

\* The microtask armed by scheduleImmediateRootScheduleTask runs.
MicrotaskDue == env.microtask > 0 /\ HeapHasRoom

AfterMicrotask ==
    Ended(processRootScheduleInMicrotask(
              [Started EXCEPT !.env.microtask = @ - 1]))

LMicrotask == MicrotaskDue /\ Becomes(AfterMicrotask)

\* The Scheduler runs a callback it holds.
TaskDue == env.tasks # {} /\ env.microtask = 0 /\ HeapHasRoom

AfterTask(task, didTimeout, budget) ==
    Ended(runTask(Started, task, didTimeout, budget))

LTask ==
    /\ TaskDue
    /\ \E task \in env.tasks, didTimeout \in BOOLEAN, budget \in 1..MaxSlice :
         Becomes(AfterTask(task, didTimeout, budget))

\* Time passes.
LTick ==
    /\ env.now < MaxTime
    /\ env.microtask = 0
    /\ Becomes([Started EXCEPT !.env.now = @ + 1])

\* The data arrives.
LResolve ==
    /\ env.thenable = "pending"
    /\ env.microtask = 0
    /\ Becomes(resolveThenable(Started, TheRoot))

NextLoop == LUpdate \/ LMicrotask \/ LTask \/ LTick \/ LResolve

SpecLoop == InitLoop /\ [][NextLoop]_vars

(***************************************************************************)
(* SpecLive: SpecLoop for an application whose components render plainly,  *)
(* with the fairness of the host: a microtask that is armed runs, and the  *)
(* Scheduler runs a callback it holds.                                     *)
(***************************************************************************)
LiveEvents == { Event(PlainType, SyncLane), Event(OtherType, TransitionLane) }

LiveUpdate == UpdateFrom(LiveEvents, MaxLiveUpdates)

NextLive == LiveUpdate \/ LMicrotask \/ LTask \/ LTick

\* A due microtask or task changes the state when it runs, so the action is
\* enabled exactly when it is due.
DueStepsAct ==
    /\ MicrotaskDue => AfterMicrotask # World
    /\ TaskDue => \A task \in env.tasks, didTimeout \in BOOLEAN,
                        budget \in 1..MaxSlice :
                     AfterTask(task, didTimeout, budget) # World

\* Weak fairness of LMicrotask and of LTask, WF_vars(LMicrotask) and
\* WF_vars(LTask), written out with ENABLED <<A>>_vars as the guard of A.
SpecLive ==
    /\ InitLoop
    /\ [][NextLive]_vars
    /\ ([]<>~MicrotaskDue \/ []<><<LMicrotask>>_vars)
    /\ ([]<>~TaskDue \/ []<><<LTask>>_vars)

(***************************************************************************)
(* SpecSlice: SpecLive without the clock, for a Scheduler that may run a   *)
(* callback when its time is used up already: the budget of a callback is  *)
(* the number of units of work that fit before the deadline, zero          *)
(* included.                                                               *)
(***************************************************************************)
MaxSliceUpdates == 2

SliceEvents == { Event(PlainType, SyncLane), Event(OtherType, TransitionLane) }

SUpdate == UpdateFrom(SliceEvents, MaxSliceUpdates)

STask ==
    /\ TaskDue
    /\ \E task \in env.tasks, didTimeout \in BOOLEAN, budget \in 0..MaxSlice :
         Becomes(AfterTask(task, didTimeout, budget))

NextSlice == SUpdate \/ LMicrotask \/ STask

\* Weak fairness of LMicrotask and of STask, as in SpecLive.
SpecSlice ==
    /\ InitLoop
    /\ [][NextSlice]_vars
    /\ ([]<>~MicrotaskDue \/ []<><<LMicrotask>>_vars)
    /\ ([]<>~TaskDue \/ []<><<STask>>_vars)

(***************************************************************************)
(* SpecSync: SpecLoop without the clock, for an application whose          *)
(* components also wait for data or fail when they are updated             *)
(* synchronously.                                                          *)
(***************************************************************************)
MaxSyncUpdates == 2

SyncEvents ==
    { Event(PlainType, SyncLane), Event(DataType, SyncLane),
      Event(FatalType, SyncLane), Event(DataType, TransitionLane) }

YUpdate == UpdateFrom(SyncEvents, MaxSyncUpdates)

\* An event handler that runs inside batchedUpdates flushes the Sync work
\* (flushSync); its frames restore the context when the flush has returned.
AfterBatchedFlush ==
    [flushSyncWorkAcrossRoots_impl(
         [Started EXCEPT !.wl.executionContext = BatchedContext], NoLanes, FALSE)
       EXCEPT !.wl.executionContext = wl.executionContext]

YFlush ==
    /\ HeapHasRoom
    /\ rs.mightHavePendingSyncWork
    /\ Becomes(Ended(AfterBatchedFlush))

NextSync == YUpdate \/ LMicrotask \/ LTask \/ LResolve \/ YFlush

SpecSync == InitLoop /\ [][NextSync]_vars

(***************************************************************************)
(* SpecEntry: the entry points of the reconciler as a host calls them, in  *)
(* any context and at any moment of the life of a container: with work    *)
(* pending, from code that runs inside a render or a commit, and after     *)
(* the container has been torn down.  The Scheduler runs no task.          *)
(***************************************************************************)
MaxEntryUpdates == 2

EntryEvents == { Event(PlainType, SyncLane), Event(OtherType, TransitionLane) }

EntryLanes == {SyncLane, TransitionLane, mergeLanes(SyncLane, TransitionLane)}

\* The contexts of code that runs inside a render, a commit, or both.
WorkingContexts ==
    {RenderContext, CommitContext, BitOr(RenderContext, CommitContext)}

EUpdate == UpdateFrom(EntryEvents, MaxEntryUpdates)

\* performWorkOnRoot entered from code that runs in the context ctx; the
\* caller's frames restore the context when the error has left them.
AfterNested(ctx, lanes, forceSync) ==
    [performWorkOnRoot([Started EXCEPT !.wl.executionContext = ctx,
                                       !.gh.thrown = NoValue],
                       TheRoot, lanes, forceSync, 1)
       EXCEPT !.wl.executionContext = wl.executionContext]

ENested ==
    \E ctx \in WorkingContexts, lanes \in EntryLanes, forceSync \in BOOLEAN :
       Becomes(AfterNested(ctx, lanes, forceSync))

\* The container is torn down: the fiber of an idle root is detached and
\* loses its update queue (specification 4.3 and 7: a torn-down fiber has
\* update_queue null).
detachFiber(w, fiber) == [w EXCEPT !.fibers[fiber].updateQueue = Null]

IsIdle ==
    /\ roots[TheRoot].pendingLanes = NoLanes
    /\ wl.workInProgress = Null
    /\ cu.concurrentQueues = <<>>
    /\ env.microtask = 0
    /\ env.tasks = {}

EDetach ==
    /\ IsIdle
    /\ fibers[roots[TheRoot].current].updateQueue # Null
    /\ Becomes(detachFiber(Started, roots[TheRoot].current))

NextEntry == EUpdate \/ LMicrotask \/ ENested \/ EDetach

SpecEntry == InitLoop /\ [][NextEntry]_vars

(***************************************************************************)
(* SpecRoots: three containers on one page, whose components render        *)
(* plainly.  Event handlers update any of them, the microtask schedules    *)
(* them all and the Scheduler runs the callbacks of the roots in any       *)
(* order.                                                                  *)
(***************************************************************************)
MaxRootsUpdates == 3

RootsShape == [t \in {PlainType, OtherType} |-> <<>>]

RootsEvents ==
    { [element |-> PlainType, lane |-> SyncLane, callback |-> FlushSyncCallback],
      [element |-> OtherType, lane |-> TransitionLane, callback |-> Null] }

InitRoots ==
    Is(createFiberRoot(
           createFiberRoot(
               createFiberRoot(EmptyWorld(RootsShape)).w).w).w)

\* An event handler updates one of the containers.
UpdateAnyFrom(events, max) ==
    /\ gh.enq < max
    /\ \E root \in DOMAIN roots, e \in events :
         Becomes(updateContainer(Started, e.element, root, Null, e.callback,
                                 e.lane).w)

RUpdate == UpdateAnyFrom(RootsEvents, MaxRootsUpdates)

NextRoots == RUpdate \/ LMicrotask \/ LTask

SpecRoots == InitRoots /\ [][NextRoots]_vars

(***************************************************************************)
(* SpecPair: two containers on one page, with the clock: a lane that has   *)
(* waited for its budget expires.                                          *)
(***************************************************************************)
MaxPairUpdates == 2

InitPair ==
    \E prerender \in BOOLEAN :
       Is([createFiberRoot(createFiberRoot(EmptyWorld(RootsShape)).w).w
             EXCEPT !.env.enableSiblingPrerendering = prerender])

PUpdate == UpdateAnyFrom(RootsEvents, MaxPairUpdates)

NextPair == PUpdate \/ LMicrotask \/ LTask \/ LTick

SpecPair == InitPair /\ [][NextPair]_vars

(***************************************************************************)
(* SpecSplice: the update queue of SpecQueue with updater functions that   *)
(* set state again while processUpdateQueue calls them.                    *)
(***************************************************************************)
SpliceEvents ==
    { [inp |-> Input(UpdateState, FnPayload(fn), Null, FALSE), lane |-> lane] :
      fn \in {"toggle", "again"}, lane \in {SyncLane, TransitionLane} }

\* An event handler sets state.
SSetState ==
    /\ gh.enq < MaxUpdates
    /\ \E e \in SpliceEvents :
         Becomes(setState(World, roots[TheRoot].current, e.inp, e.lane))

NextSplice == SSetState \/ QRender \/ QWork

SpecSplice == InitQueue /\ [][NextSplice]_vars

(***************************************************************************)
(* SpecWalk: renders of trees with siblings.  The container shows one of   *)
(* three elements: a component with two children, the first of which has a *)
(* child of its own; that first child alone; or a leaf.                    *)
(***************************************************************************)
MaxWalkUpdates == 2
MaxWalkRenders == 2

WalkShape ==
    [t \in {1, 2, 3, 4} |->
       CASE t = 1 -> <<2, 3>>
         [] t = 2 -> <<4>>
         [] OTHER -> <<>>]

WalkEvents ==
    { [inp |-> Input(UpdateState, ObjPayload(Obj(t, Undef)), Null, FALSE),
       lane |-> lane] :
      t \in {1, 2, 3}, lane \in {SyncLane, TransitionLane} }

InitWalk == Is(createFiberRoot(EmptyWorld(WalkShape)).w)

\* An event handler replaces the element of the container.
WSetState ==
    /\ gh.enq < MaxWalkUpdates
    /\ \E e \in WalkEvents :
         Becomes(setState(World, roots[TheRoot].current, e.inp, e.lane))

\* A render of the given lanes starts; a render in progress is abandoned.
WRender ==
    /\ gh.renders < MaxWalkRenders
    /\ \E lanes \in FiberRenderLanes :
         Becomes([prepareFreshStack(World, TheRoot, lanes).w
                    EXCEPT !.gh.renders = @ + 1])

\* One unit of work; the unit that completes the tree commits it.
WWork ==
    /\ wl.workInProgress # Null
    /\ LET lanes == wl.workInProgressRootRenderLanes
           w0 == [World EXCEPT !.wl.executionContext = RenderContext]
       IN  \E w1 \in {[performUnitOfWork(w0, wl.workInProgress, NoBehaviour).w
                          EXCEPT !.wl.executionContext = NoContext]} :
             IF w1.wl.workInProgress # Null
             THEN Becomes(w1)
             ELSE Becomes(commitRoot(finishRender(w1), TheRoot,
                                     w1.fibers[w1.roots[TheRoot].current].alternate,
                                     lanes))

NextWalk == WSetState \/ WRender \/ WWork

SpecWalk == InitWalk /\ [][NextWalk]_vars

(***************************************************************************)
(* SpecTree: enqueueUpdate on the fibers of a mounted tree.  The root      *)
(* renders a class component that renders another; each has an update      *)
(* queue, and the outer one may have an alternate from an earlier render.  *)
(* Event handlers and render functions set state on any of them; the work  *)
(* loop flushes the staged updates as it does when a render starts or      *)
(* ends.                                                                   *)
(***************************************************************************)
MaxTreeUpdates == 3

\* ReactWorkTags.ClassComponent
ClassComponent == 1

\* A class component mounted under returnFiber as its only child
\* (specification 4.5: the component's queue is initialised when it mounts).
mountClassComponent(w, returnFiber) ==
    The({ Ret(initializeUpdateQueue(
                  [made.w EXCEPT !.fibers[made.ret].return = returnFiber,
                                 !.fibers[returnFiber].child = made.ret],
                  made.ret),
              made.ret) :
          made \in {createFiber(w, ClassComponent, 1)} })

\* The alternate an earlier render has left to fiber.
withAlternate(w, fiber) ==
    The({ [made.w EXCEPT !.fibers[made.ret].return = w.fibers[fiber].return,
                         !.gh.created = {}] :
          made \in {createWorkInProgress(w, fiber, 1)} })


InitTree ==
    \E alternate \in BOOLEAN :
       \E outer \in {mountClassComponent(createFiberRoot(EmptyWorld(QueueShape)).w,
                                         1)} :
          \E inner \in {mountClassComponent(outer.w, outer.ret)} :
             Is(IF alternate THEN withAlternate(inner.w, outer.ret) ELSE inner.w)

TreeInput == Input(UpdateState, FnPayload("toggle"), Null, FALSE)

\* An event handler sets the state of a component or updates the root.
TSetState ==
    /\ gh.enq < MaxTreeUpdates
    /\ \E fiber \in {f \in DOMAIN fibers : fibers[f].updateQueue # Null},
          lane \in {SyncLane, TransitionLane} :
         Becomes(setState(World, fiber, TreeInput, lane))

\* A render function sets state (an unsafe render-phase update).
TSetStateInRender ==
    /\ gh.enq < MaxTreeUpdates
    /\ \E fiber \in {f \in DOMAIN fibers : fibers[f].updateQueue # Null},
          lane \in {SyncLane, TransitionLane} :
         Becomes([setState([World EXCEPT !.wl.executionContext = RenderContext],
                           fiber, TreeInput, lane)
                    EXCEPT !.wl.executionContext = NoContext])

\* The work loop flushes the staged updates (prepareFreshStack, line 108;
\* the end of a render, lines 512 and 817).
TFlush ==
    /\ cu.concurrentQueues # <<>>
    /\ Becomes(finishQueueingConcurrentUpdates(World))

NextTree == TSetState \/ TSetStateInRender \/ TFlush

SpecTree == InitTree /\ [][NextTree]_vars

(***************************************************************************)
(* SpecFlags: the flags of a fiber.  The reconciler marks a fiber with a   *)
(* flag, clears it, and tests it (flags |= Flag, flags &= ~Flag,           *)
(* (flags & Flag) !== NoFlags); gh.marked is the set of flags the fiber    *)
(* has been marked with and not cleared of.                                *)
(***************************************************************************)
MaxMarks == 2

\* workInProgress.flags |= Callback (part_001, line 299)
markFlag(w, fiber, flag) ==
    [w EXCEPT !.fibers[fiber].flags = BitOr(@, flag)]

\* workInProgress.flags & ~ShouldCapture (part_001, line 400)
clearFlag(w, fiber, flag) ==
    [w EXCEPT !.fibers[fiber].flags = BitAndNot(@, flag)]

\* flags & Placement !== 0 (ReactFiberFlags.js, line 12)
hasFlag(w, fiber, flag) == BitAnd(w.fibers[fiber].flags, flag) # NoFlags

InitFlags == Is(createFiberRoot(EmptyWorld(QueueShape)).w)

GMark ==
    /\ Cardinality(gh.marked) < MaxMarks
    /\ \E name \in DOMAIN FlagBits \ gh.marked :
         Becomes([markFlag(World, roots[TheRoot].current, FlagBits[name])
                    EXCEPT !.gh.marked = @ \cup {name}])

GClear ==
    \E name \in gh.marked :
       Becomes([clearFlag(World, roots[TheRoot].current, FlagBits[name])
                  EXCEPT !.gh.marked = @ \ {name}])

NextFlags == GMark \/ GClear

SpecFlags == InitFlags /\ [][NextFlags]_vars

(***************************************************************************)
(* Properties of the update queue (SpecQueue).                             *)
(***************************************************************************)
RootFiber == roots[TheRoot].current
RootWip == fibers[RootFiber].alternate
RootQueue == fibers[RootFiber].updateQueue

\* The state obtained by applying the updates srcs[i..] in order to state.
RECURSIVE ApplyInOrder(_, _, _)
ApplyInOrder(srcs, i, state) ==
    IF i > Len(srcs) THEN state
    ELSE ApplyInOrder(srcs, i + 1,
            getStateFromUpdate(World, RootFiber, RootQueue, srcs[i],
                               state, Null, Null).ret)

SrcsOf(ids) == [i \in DOMAIN ids |-> updates[ids[i]].src]

Suffix(s, n) == SubSeq(s, Len(s) - n + 1, Len(s))

\* C1: a pass of processUpdateQueue that skips no update leaves the
\* work-in-progress fiber with the state obtained by applying every update
\* ever linked into the queue, once each and in enqueue order, to the
\* initial base state -- however many earlier passes skipped some of them
\* and rebased the rest.
C1_RebaseIdempotent ==
    (gh.processed /\ gh.skipped = <<>>) =>
        fibers[RootWip].memoizedState = ApplyInOrder(gh.all, 1, InitialState)

\* A pass without skips is applying an update that an earlier pass skipped,
\* together with updates that were applied before and kept for the rebase.
C1_Witness ==
    /\ gh.processed /\ gh.skipped = <<>>
    /\ Len(gh.applied) >= 3
    /\ \E i \in DOMAIN gh.applied : gh.applied[i] \in gh.everSkipped
    /\ fibers[RootWip].memoizedState # InitialState

\* C2: the pending list is a ring in enqueue order (pending is the update
\* enqueued last, pending.next the one enqueued first), and a pass that
\* skips nothing applies exactly the updates the queue held, each once, in
\* enqueue order.
C2_FifoDrain ==
    /\ RingSeq(World, queues[RootQueue].shared) = gh.ring
    /\ gh.ring # <<>> =>
          /\ shareds[queues[RootQueue].shared].pending = gh.ring[Len(gh.ring)]
          /\ updates[gh.ring[Len(gh.ring)]].next = gh.ring[1]
    /\ (gh.processed /\ gh.skipped = <<>>) =>
          /\ gh.applied = SrcsOf(gh.before)
          /\ gh.applied = Suffix(gh.all, Len(gh.applied))

\* Three updates were enqueued on the empty queue and one pass drained them.
C2_Witness ==
    /\ gh.processed /\ gh.skipped = <<>>
    /\ gh.baseBefore = InitialState
    /\ Len(gh.applied) = 3
    /\ gh.applied = gh.all

\* C3: when a render that processed the root's queue is abandoned (a fresh
\* stack is prepared before it commits), and at every moment before that,
\* the current fiber's queue has the base state it had before the render,
\* and every update the queue held before the render is still reachable
\* from it (base list or pending ring) with the lane it had.
C3_AbandonKeepsUpdates ==
    (gh.processed \/ gh.abandoned) =>
        /\ queues[RootQueue].baseState = gh.baseBefore
        /\ \A i \in DOMAIN gh.before :
              /\ \E j \in DOMAIN QueueContents(World, RootQueue) :
                    QueueContents(World, RootQueue)[j] = gh.before[i]
              /\ updates[gh.before[i]].lane = gh.beforeLanes[i]

\* A render that applied one update and skipped another was abandoned.
C3_Witness ==
    /\ gh.abandoned
    /\ gh.applied # <<>>
    /\ gh.skipped # <<>>
    /\ Len(gh.before) >= 2
    /\ wl.workInProgress = RootWip

(***************************************************************************)
(* Properties of the double buffer (SpecFiber).                            *)
(***************************************************************************)

\* C4: alternate symmetry.  In every reachable state every fiber F whose
\* alternate is a fiber G is the alternate of G, and every call of
\* createWorkInProgress, allocating or reusing, returns a fiber that is
\* linked to current in both directions.
C4_AlternateSymmetry ==
    /\ \A f \in DOMAIN fibers :
         fibers[f].alternate # Null =>
           /\ fibers[f].alternate \in DOMAIN fibers
           /\ fibers[fibers[f].alternate].alternate = f
    /\ \A c \in gh.created :
         c.alternate = c.current /\ c.currentAlternate = c.workInProgress

\* Both branches of createWorkInProgress have run in the render in
\* progress, and the work loop has taken steps in it.
C4_Witness ==
    /\ \E a, b \in gh.created : a.reused /\ ~b.reused
    /\ wl.workInProgress # Null
    /\ Len(gh.begun) >= 2

\* C5: static mask persistence.  The fiber createWorkInProgress returns, in
\* both branches, has the static bits of current.flags and no other flag,
\* no subtree flags and no deletions.
C5_StaticMaskPersistence ==
    \A c \in gh.created :
      /\ BitAnd(c.flags, StaticMask) = BitAnd(c.currentFlags, StaticMask)
      /\ BitAndNot(c.flags, StaticMask) = NoFlags
      /\ c.subtreeFlags = NoFlags
      /\ c.deletions = NoDeletions

\* The render in progress has allocated a fiber, has built one from a
\* current with static and non-static flags, and has reused one that carried
\* subtree flags and deletions from the render it was last used in.
C5_Witness ==
    /\ \E c \in gh.created : ~c.reused
    /\ \E c \in gh.created :
         /\ BitAnd(c.currentFlags, StaticMask) # NoFlags
         /\ BitAndNot(c.currentFlags, StaticMask) # NoFlags
    /\ \E c \in gh.created :
         c.reused /\ c.hadSubtreeFlags # NoFlags /\ c.hadDeletions # NoDeletions

(***************************************************************************)
(* Properties of the work loop (SpecLoop).  gh.calls holds, for the calls  *)
(* of performWorkOnRoot in the last step, what each was entered with and   *)
(* what it did.                                                            *)
(***************************************************************************)
Calls == {gh.calls[i] : i \in DOMAIN gh.calls}

C7_RenderMode ==
    \A c \in Calls :
      /\ c.mode \in {"concurrent", "sync"}
      /\ c.mode = "concurrent" <=>
           \/ (~c.forceSync /\ ~c.blocking /\ ~c.expired)
           \/ (env.enableSiblingPrerendering /\ c.prerendering)

\* A call of the last step rendered an expired lane synchronously though
\* the Scheduler did not force it.
C7_Witness ==
    \E c \in Calls : c.mode = "sync" /\ c.expired /\ ~c.forceSync /\ ~c.blocking

\* C7 as stated: time-sliced if and only if forceSync is false and there is
\* no blocking lane and no expired lane.
C7_Original ==
    \A c \in Calls :
      c.mode = "concurrent" <=> (~c.forceSync /\ ~c.blocking /\ ~c.expired)

OnData == {"SuspendedOnData", "SuspendedOnAction"}

\* A time-sliced render that stopped at a unit of work waiting for data
\* yielded RootInProgress, left the listener on the thenable, and reached
\* neither the commit step nor the host.
SuspendedRenderYields ==
    \A c \in Calls :
      (c.mode = "concurrent" /\ c.exitReason \in OnData /\ c.exitUnit # Null) =>
        /\ c.exitStatus = "RootInProgress"
        /\ c.finished = NoValue
        /\ c.mutations = 0
        /\ c.currentAfter = c.currentBefore
        /\ env.thenable = "pending" /\ env.onResolution

\* A time-sliced render entered for the root and lanes in progress, at a
\* unit of work whose data has arrived, began that unit again: it neither
\* started from a fresh stack nor unwound.
ResolvedRenderReplays ==
    \A c \in Calls :
      (/\ c.mode = "concurrent" /\ c.sameStack /\ c.entryUnit # Null
       /\ c.entryReason \in OnData \cup {"SuspendedAndReadyToContinue"}
       /\ c.entryThenable = "resolved") =>
        ~c.fresh /\ c.replayed = c.entryUnit /\ ~c.unwound

\* When the thenable a render waits for resolves, the root is scheduled
\* again and the unit of work is kept, ready to continue.
ResolutionSchedulesRoot ==
    (env.thenable = "pending" /\ env.onResolution /\ env'.thenable = "resolved") =>
      /\ env'.microtask > 0 /\ rs'.didScheduleMicrotask
      /\ rs'.lastScheduledRoot = TheRoot
      /\ (wl.workInProgressSuspendedReason \in OnData /\ wl.workInProgressRoot = TheRoot) =>
           /\ wl'.workInProgressSuspendedReason = "SuspendedAndReadyToContinue"
           /\ wl'.workInProgress = wl.workInProgress
           /\ wl'.workInProgressRootRenderLanes = wl.workInProgressRootRenderLanes

\* C10: suspense resume.  A concurrent render that suspends on a pending
\* thenable yields RootInProgress without committing; when the thenable
\* resolves the root is scheduled again; the next renderRootConcurrent for
\* the same root and lanes replays the suspended unit of work instead of
\* restarting or unwinding.
C10_SuspenseResume ==
    /\ [](SuspendedRenderYields /\ ResolvedRenderReplays)
    /\ [][ResolutionSchedulesRoot]_vars

\* A render that had waited for data was entered again after the data
\* arrived, replayed the unit, completed and committed.
C10_Witness ==
    \E c \in Calls :
      /\ c.mode = "concurrent" /\ c.sameStack
      /\ c.entryReason = "SuspendedAndReadyToContinue"
      /\ c.entryUnit # Null /\ c.replayed = c.entryUnit
      /\ c.exitStatus = "RootCompleted" /\ c.mutations = 1

\* The units a call of performWorkOnRoot began, in order.
BegunIn(c) == SubSeq(c.begunAfter, Len(c.begunBefore) + 1, Len(c.begunAfter))

IsPrefix(s, t) == Len(s) <= Len(t) /\ SubSeq(t, 1, Len(s)) = s

\* The render of call c started over: on a new work-in-progress root fiber.
StartedOver(c) ==
    /\ c.fresh
    /\ c.begunAfter # <<>> =>
          /\ fibers[c.begunAfter[1]].tag = HostRoot
          /\ c.begunAfter[1] = fibers[c.currentBefore].alternate

\* The render of call c went on: the units begun before are kept, the first
\* unit begun is the saved one, and no unit begun before is begun again,
\* but the one unit that had suspended and is replayed.
WentOn(c) ==
    /\ ~c.fresh
    /\ IsPrefix(c.begunBefore, c.begunAfter)
    /\ BegunIn(c) # <<>> => BegunIn(c)[1] = c.entryUnit
    /\ c.entryUnit = Null => BegunIn(c) = <<>>
    /\ \A i \in DOMAIN BegunIn(c) :
          /\ \A j \in DOMAIN BegunIn(c) : BegunIn(c)[i] = BegunIn(c)[j] => i = j
          /\ (\E k \in DOMAIN c.begunBefore : c.begunBefore[k] = BegunIn(c)[i]) =>
                /\ i = 1 /\ c.replayed = c.entryUnit
                /\ c.begunBefore[Len(c.begunBefore)] = c.entryUnit

\* C35: renderRootConcurrent and renderRootSync prepare a fresh stack if and
\* only if the root or the lanes differ from those of the render in
\* progress; otherwise the render continues from the saved unit of work and
\* repeats no unit.
C35_FreshStackOrResume ==
    \A c \in Calls :
      c.mode # NoValue =>
        IF c.sameStack THEN WentOn(c) ELSE StartedOver(c)

\* A time-sliced render that had yielded after some units was entered again
\* for the same root and lanes and began the rest.
C35_Witness ==
    \E c \in Calls :
      /\ c.mode = "concurrent" /\ c.sameStack /\ ~c.fresh
      /\ c.entryReason = "NotSuspended" /\ c.entryUnit # Null
      /\ c.begunBefore # <<>> /\ BegunIn(c) # <<>>
      /\ c.exitStatus = "RootCompleted"

\* A render in progress was abandoned for other lanes of the same root.
C35_RestartWitness ==
    \E c \in Calls :
      /\ c.mode # NoValue /\ ~c.sameStack /\ c.fresh
      /\ c.entryUnit # Null /\ c.begunBefore # <<>>

(***************************************************************************)
(* Properties of the time-sliced work loops (SpecSlice).                   *)
(***************************************************************************)
Loops == {gh.loops[i] : i \in DOMAIN gh.loops}

\* workLoopConcurrent performs a unit whenever it has one.
ThrottledLoopWorks ==
    \A l \in Loops : (l.throttled /\ l.unit # Null) => l.units >= 1

\* workLoopConcurrentByScheduler performs a unit exactly when it has one
\* and shouldYield() is false.
SchedulerLoopWorks ==
    \A l \in Loops : ~l.throttled => (l.units >= 1 <=> (l.unit # Null /\ ~l.exhausted))

ThrottledRenderPending ==
    /\ env.enableThrottledScheduling
    /\ BitAnd(roots[TheRoot].pendingLanes, TransitionLane) # NoLanes

TransitionCommitted == BitAnd(roots[TheRoot].pendingLanes, TransitionLane) = NoLanes

\* C36: workLoopConcurrent performs at least one unit of work whenever
\* workInProgress is not null, also when no time is left, so a time-sliced
\* render is committed after finitely many Scheduler callbacks;
\* workLoopConcurrentByScheduler performs no unit when shouldYield() is
\* true already.
C36_TimeBudgetProgress ==
    /\ [](ThrottledLoopWorks /\ SchedulerLoopWorks)
    /\ (ThrottledRenderPending ~> TransitionCommitted)

\* A callback that had no time left performed the last unit of a
\* time-sliced render, which completed and was committed.
C36_Witness ==
    /\ \E l \in Loops : l.throttled /\ l.exhausted /\ l.unit # Null /\ l.units = 1
    /\ \E c \in Calls :
         /\ c.mode = "concurrent" /\ c.sameStack /\ c.begunBefore # <<>>
         /\ c.exitStatus = "RootCompleted" /\ c.mutations = 1

\* A callback of the scheduler-driven loop that had no time left returned
\* with the render where it was.
C36_StalledWitness ==
    /\ \E l \in Loops : ~l.throttled /\ l.exhausted /\ l.unit # Null /\ l.units = 0
    /\ \E c \in Calls :
         /\ c.mode = "concurrent" /\ c.entryUnit # Null /\ c.sameStack
         /\ c.exitUnit = c.entryUnit /\ c.exitStatus = "RootInProgress"

(***************************************************************************)
(* Properties of the scheduler (SpecLive).                                 *)
(***************************************************************************)
HasLane(lanes, lane) == BitAnd(lanes, lane) # NoLanes

\* The last run of scheduleTaskForRootDuringMicrotask left every pending
\* lane whose expiration time had passed in expiredLanes.
MarksStarvedLanes ==
    \A l \in LaneSet :
      (/\ HasLane(gh.sched.pending, l)
       /\ gh.sched.times[l] # NoTimestamp
       /\ gh.sched.times[l] <= gh.sched.now) => HasLane(gh.sched.expired, l)

\* A render of an expired Transition lane took the synchronous path,
\* completed and was committed, whatever Sync work was pending with it.
ExpiredRendersSync ==
    \A c \in Calls :
      (HasLane(c.lanes, TransitionLane) /\ HasLane(c.expiredBefore, TransitionLane)) =>
        /\ c.mode = "sync"
        /\ c.exitStatus = "RootCompleted" /\ c.mutations = 1

TransitionPending == HasLane(roots[TheRoot].pendingLanes, TransitionLane)

TransitionOverdue ==
    /\ TransitionPending
    /\ roots[TheRoot].expirationTimes[TransitionLane] # NoTimestamp
    /\ roots[TheRoot].expirationTimes[TransitionLane] <= env.now

\* C8: starvation protection.  Once the expiration time of a pending
\* Transition lane has passed, the next scheduleTaskForRootDuringMicrotask
\* marks the lane expired; an expired lane is rendered by the synchronous
\* path and committed; and the overdue lane does get committed, whatever
\* Sync updates are enqueued and rendered meanwhile.
C8_StarvationProtection ==
    /\ [](MarksStarvedLanes /\ ExpiredRendersSync)
    /\ (TransitionOverdue ~> ~TransitionPending)

\* After a Sync commit that left the Transition waiting, the expired
\* Transition lane was rendered synchronously, together with a further Sync
\* update, and committed.
C8_Witness ==
    /\ env.hostMutations >= 2
    /\ \E c \in Calls :
         /\ HasLane(c.lanes, TransitionLane) /\ HasLane(c.expiredBefore, TransitionLane)
         /\ HasLane(c.pendingBefore, SyncLane)
         /\ c.mode = "sync" /\ c.mutations = 1

\* While a Sync update is pending no render leaves it out.
SyncRendersFirst ==
    \A c \in Calls : HasLane(c.pendingBefore, SyncLane) => HasLane(c.lanes, SyncLane)

\* The render of a Sync update that arrived while a Transition update was
\* waiting, the Transition lane not being expired, renders the Sync lane
\* alone and commits; the Transition lane remains pending.
PreemptionKeepsTransition ==
    \A c \in Calls :
      (/\ c.preempt /\ HasLane(c.lanes, SyncLane)
       /\ ~HasLane(c.expiredBefore, TransitionLane)) =>
        /\ c.lanes = SyncLane
        /\ c.exitStatus = "RootCompleted" /\ c.mutations = 1
        /\ HasLane(c.pendingAfter, TransitionLane)

\* Once the microtask has run, a pending Transition lane has a callback
\* with the Scheduler.
TransitionRescheduled ==
    (env.microtask = 0 /\ TransitionPending) =>
      /\ roots[TheRoot].callbackNode # Null
      /\ [node |-> roots[TheRoot].callbackNode, root |-> TheRoot] \in env.tasks
      /\ roots[TheRoot].callbackPriority = TransitionLane

C11_RootCallbackInvariant ==
    \A root \in DOMAIN roots :
        roots[root].callbackNode # Null => roots[root].callbackPriority # NoLane

\* After a render, the root holds the callback the Scheduler has yet to run.
C11_Witness ==
    /\ roots[TheRoot].callbackNode # Null
    /\ [node |-> roots[TheRoot].callbackNode, root |-> TheRoot] \in env.tasks
    /\ Len(gh.calls) > 0

(***************************************************************************)
(* Properties of the entry points (SpecEntry).                             *)
(***************************************************************************)
\* C12: performWorkOnRoot entered while the execution context contains
\* RenderContext or CommitContext throws "Should not already be working."
\* and changes nothing else: the work-loop state, the roots, the scheduler's
\* list, the heap and the host's queues are those of the entry, no render
\* is started and the root is not scheduled.
C12_NestedEntryRejected ==
    \A ctx \in WorkingContexts, lanes \in EntryLanes, forceSync \in BOOLEAN :
       LET entered == [Started EXCEPT !.wl.executionContext = ctx,
                                      !.gh.thrown = NoValue]
       IN  performWorkOnRoot(entered, TheRoot, lanes, forceSync, 1)
              = [entered EXCEPT !.gh.thrown = AlreadyWorkingError]

\* A nested entry was rejected while the root had work pending and a
\* callback waiting.
C12_Witness ==
    /\ gh.thrown = AlreadyWorkingError
    /\ roots[TheRoot].pendingLanes # NoLanes
    /\ roots[TheRoot].callbackNode # Null

\* C13: an update of a fiber whose updateQueue is null is dropped.
\* enqueueUpdate returns null and the state it was given; updateContainer on
\* a root whose fiber has no queue links the update it created into no
\* queue and no staging array, merges no lane into a fiber or into the
\* root's pending lanes, and schedules nothing: the scheduled-root list, the
\* microtask and the Scheduler's task are as before.
C13_UnmountedUpdateDropped ==
    fibers[roots[TheRoot].current].updateQueue = Null =>
      /\ \A u \in DOMAIN updates, lane \in EntryLanes :
            enqueueUpdate(World, roots[TheRoot].current, u, lane) = Ret(World, Null)
      /\ \A e \in EntryEvents :
           \A out \in {updateContainer(World, e.element, TheRoot, Null, Null,
                                       e.lane).w} :
              /\ out.fibers = fibers
              /\ out.queues = queues
              /\ out.shareds = shareds
              /\ out.cu = cu
              /\ out.rs = rs
              /\ out.wl = wl
              /\ out.env = env
              /\ out.roots[TheRoot].pendingLanes = roots[TheRoot].pendingLanes
              /\ out.roots[TheRoot].next = roots[TheRoot].next
              /\ out.roots[TheRoot].callbackNode = roots[TheRoot].callbackNode
              /\ Len(out.updates) = Len(updates) + 1
              /\ \A u \in DOMAIN out.updates :
                    out.updates[u].next =
                        IF u \in DOMAIN updates THEN updates[u].next ELSE Null

\* The container was updated after its fiber had lost its queue: an update
\* was made that is in no queue and in no staging array.
C13_Witness ==
    /\ fibers[roots[TheRoot].current].updateQueue = Null
    /\ gh.enq > Len(gh.all) + Len(cu.concurrentQueues)
    /\ env.microtask = 0

\* The roots of the scheduled-root list from root on, first to last.
RECURSIVE ScheduledRootsFrom(_, _)
ScheduledRootsFrom(w, root) ==
    IF root = Null THEN {}
    ELSE {root} \cup ScheduledRootsFrom(w, w.roots[root].next)

\* C14: updateContainer(element, root) returns the lane it requested, in
\* every case.  On a mounted root it makes exactly one update, with tag
\* UpdateState, payload {element} and the returned lane, enqueues it on
\* root.current (one more staged update, for that fiber and its shared
\* queue), and schedules the root: the root is in the scheduled-root list.
C14_UpdateContainer ==
    \A e \in EntryEvents :
       \A out \in {updateContainer(World, e.element, TheRoot, Null, Null, e.lane)} :
          LET current == roots[TheRoot].current
              update == Len(updates) + 1
          IN  /\ out.ret = requestUpdateLane(World, e.lane)
              /\ out.ret = e.lane
              /\ fibers[current].updateQueue # Null =>
                    /\ Len(out.w.updates) = Len(updates) + 1
                    /\ out.w.updates[update].tag = UpdateState
                    /\ out.w.updates[update].payload = ObjPayload(Obj(e.element, Undef))
                    /\ out.w.updates[update].lane = out.ret
                    /\ out.w.cu.concurrentQueues =
                          Append(cu.concurrentQueues,
                                 [fiber |-> current,
                                  queue |-> queues[fibers[current].updateQueue].shared,
                                  update |-> update, lane |-> out.ret])
                    /\ \A q \in DOMAIN shareds : out.w.shareds[q] = shareds[q]
                    /\ TheRoot \in ScheduledRootsFrom(out.w, out.w.rs.firstScheduledRoot)

\* updateContainer has updated a mounted root that had work pending: its
\* update is staged with the lane of the event and the root is in the list.
C14_Witness ==
    /\ fibers[roots[TheRoot].current].updateQueue # Null
    /\ Len(cu.concurrentQueues) = 2
    /\ cu.concurrentQueues[2].fiber = roots[TheRoot].current
    /\ updates[cu.concurrentQueues[2].update].lane = TransitionLane
    /\ TheRoot \in ScheduledRootsFrom(World, rs.firstScheduledRoot)

(***************************************************************************)
(* Properties of enqueueUpdate on a tree (SpecTree).                       *)
(***************************************************************************)
\* The outer and the inner component of the tree.
TreeOuter == fibers[roots[TheRoot].current].child
TreeInner == fibers[TreeOuter].child

\* Every fiber's lanes are among the childLanes of its parent.
ParentsHoldLanes ==
    \A f \in DOMAIN fibers :
       fibers[f].return # Null =>
          isSubsetOfLanes(fibers[fibers[f].return].childLanes, fibers[f].lanes)

\* The lane of every staged update is in the lanes of its fiber and of the
\* fiber's alternate.
StagedLanesOnFiber ==
    \A i \in DOMAIN cu.concurrentQueues :
       LET e == cu.concurrentQueues[i]
           alternate == fibers[e.fiber].alternate
       IN  /\ isSubsetOfLanes(fibers[e.fiber].lanes, e.lane)
           /\ alternate # Null => isSubsetOfLanes(fibers[alternate].lanes, e.lane)

C16_RenderPhaseUpdatesSpliced ==
    gh.processed =>
       /\ Len(gh.during) <= Len(gh.applied)
       /\ Suffix(gh.applied, Len(gh.during)) = gh.during
       /\ \A i \in 1..(Len(gh.applied) - Len(gh.during)) :
             \E j \in DOMAIN gh.before : updates[gh.before[j]].src = gh.applied[i]
       /\ \A i \in DOMAIN gh.during :
             /\ \A j \in DOMAIN gh.skipped : gh.skipped[j] # gh.during[i]
             /\ \A j \in DOMAIN gh.ring : gh.ring[j] # gh.during[i]
             /\ \A j \in DOMAIN cu.concurrentQueues :
                   cu.concurrentQueues[j].update # gh.during[i]

\* One pass applied two updaters that set state again and an update between
\* them, and then the two updates they had enqueued.
C16_Witness ==
    /\ gh.processed
    /\ Len(gh.during) = 2
    /\ Len(gh.applied) = 5
    /\ updates[gh.applied[1]].payload.fn = "again"
    /\ updates[gh.applied[2]].payload.fn = "toggle"
    /\ updates[gh.applied[3]].payload.fn = "again"
    /\ gh.applied[4] = gh.during[1]
    /\ gh.applied[5] = gh.during[2]
    /\ shareds[queues[RootQueue].shared].pending = Null

(***************************************************************************)
(* Properties of interleaved updates (SpecQueue).                          *)
(***************************************************************************)
\* C17: an update enqueued outside render context stays staged: while it is
\* staged it is linked to no update, it is in no queue's pending ring or
\* base list, and no pass of processUpdateQueue has applied or skipped it;
\* every update a pass applies was in the queue when the pass began, that
\* is, it had been flushed from the staging area (by prepareFreshStack or
\* at the end of a render) before.
C17_InterleavedUpdatesWait ==
    /\ \A i \in DOMAIN cu.concurrentQueues :
          LET update == cu.concurrentQueues[i].update
          IN  /\ updates[update].next = Null
              /\ \A other \in DOMAIN updates : updates[other].next # update
              /\ \A shared \in DOMAIN shareds : shareds[shared].pending # update
              /\ \A queue \in DOMAIN queues :
                    \A j \in DOMAIN QueueContents(World, queue) :
                       QueueContents(World, queue)[j] # update
              /\ \A j \in DOMAIN gh.applied : gh.applied[j] # updates[update].src
              /\ \A j \in DOMAIN gh.skipped : gh.skipped[j] # updates[update].src
    /\ gh.processed =>
          \A j \in DOMAIN gh.applied :
             \E k \in DOMAIN gh.before : updates[gh.before[k]].src = gh.applied[j]

\* A render of the sync lane has processed the root's queue and has not
\* finished; a sync update enqueued since then is staged.
C17_Witness ==
    /\ gh.processed
    /\ wl.workInProgress # Null
    /\ wl.workInProgressRootRenderLanes = SyncLane
    /\ gh.applied # <<>>
    /\ Len(cu.concurrentQueues) = 1
    /\ cu.concurrentQueues[1].lane = SyncLane
    /\ cu.concurrentQueues[1].update > gh.applied[Len(gh.applied)]
    /\ fibers[RootWip].memoizedState = Obj(1, Undef)

(***************************************************************************)
(* Properties of the two trees (SpecFiber).                                *)
(***************************************************************************)
\* The fibers of the tree below fiber, in the heap fs.
RECURSIVE Subtree(_, _, _)
Subtree(fs, fiber, fuel) ==
    IF fiber = Null \/ fuel = 0 THEN {}
    ELSE {fiber} \cup Subtree(fs, fs[fiber].child, fuel - 1)
                 \cup Subtree(fs, fs[fiber].sibling, fuel - 1)

CurrentTree == Subtree(fibers, roots[TheRoot].current, Len(fibers))

\* The fields of a fiber that hold the committed output.
OutputFields ==
    {"tag", "type", "stateNode", "return", "child", "sibling", "index",
     "pendingProps", "memoizedProps", "updateQueue", "memoizedState",
     "flags", "subtreeFlags", "deletions"}

NoCommit == roots'[TheRoot].current = roots[TheRoot].current

\* C18, as amended: a step that is not a commit (an enqueue, the start of a
\* render, a unit of work) leaves the output fields of every fiber of the
\* current tree as they are, and the base state, the shared queue and the
\* callbacks of its update queue; what such a step may write on the
\* current tree is lanes, childLanes and alternate of a fiber and the ends
\* of the base list of its queue.
C18_CurrentTreeOutputReadOnly ==
    [][ NoCommit =>
          \A fiber \in CurrentTree :
             /\ \A field \in OutputFields : fibers'[fiber][field] = fibers[fiber][field]
             /\ LET queue == fibers[fiber].updateQueue
                IN  queue # Null =>
                       /\ queues'[queue].baseState = queues[queue].baseState
                       /\ queues'[queue].shared = queues[queue].shared
                       /\ queues'[queue].callbacks = queues[queue].callbacks ]_vars

\* A second render is in progress over a committed tree of three fibers:
\* the current root has an alternate and lanes, its queue has a base list,
\* and a work-in-progress child was made from the current child.
C18_Witness ==
    /\ Cardinality(CurrentTree) = 3
    /\ wl.workInProgress # Null
    /\ gh.processed
    /\ fibers[RootFiber].lanes # NoLanes
    /\ queues[RootQueue].lastBaseUpdate # Null
    /\ fibers[RootWip].child # fibers[RootFiber].child
    /\ fibers[RootFiber].child # Null
    /\ fibers[fibers[RootFiber].child].alternate = fibers[RootWip].child

\* C18 as stated: a step that is not a commit changes no field of a fiber of
\* the current tree and no field of its update queue.
C18_Original ==
    [][ NoCommit =>
          \A fiber \in CurrentTree :
             /\ fibers'[fiber] = fibers[fiber]
             /\ LET queue == fibers[fiber].updateQueue
                IN  queue # Null => queues'[queue] = queues[queue] ]_vars

\* A producer enqueues while a render is in progress.
EnqueuesDuringRender == gh.enq' # gh.enq /\ wl.workInProgress # Null

\* C19, as amended: an enqueue between the units of work of a render in
\* progress, on a fiber whose alternate is a work-in-progress fiber, merges
\* the lane of the update into the lanes of that work-in-progress fiber and
\* changes nothing else outside the current tree: no other field of a
\* work-in-progress fiber, no field of its own queue, and no variable of
\* the work loop.
C19_EnqueueWritesOnlyWipLanes ==
    [][ EnqueuesDuringRender =>
          LET staged == cu.concurrentQueues'[Len(cu.concurrentQueues')]
              alternate == fibers[staged.fiber].alternate
          IN  /\ Len(fibers') = Len(fibers)
              /\ alternate \notin CurrentTree
              /\ fibers'[alternate].lanes = mergeLanes(fibers[alternate].lanes, staged.lane)
              /\ \A fiber \in DOMAIN fibers \ CurrentTree :
                    /\ [fibers'[fiber] EXCEPT !.lanes = fibers[fiber].lanes] = fibers[fiber]
                    /\ fiber # alternate => fibers'[fiber].lanes = fibers[fiber].lanes
                    /\ LET queue == fibers[fiber].updateQueue
                       IN  (queue # Null /\ queue # RootQueue) =>
                              queues'[queue] = queues[queue]
              /\ wl' = wl ]_vars

\* A sync render has processed the root's queue, leaving no lane on the
\* work-in-progress root, and has not finished; a transition update enqueued
\* since then has put its lane on the work-in-progress root.
C19_Witness ==
    /\ wl.workInProgress # Null
    /\ wl.workInProgressRootRenderLanes = SyncLane
    /\ gh.processed
    /\ gh.applied # <<>>
    /\ Len(cu.concurrentQueues) = 1
    /\ cu.concurrentQueues[1].fiber = RootFiber
    /\ cu.concurrentQueues[1].lane = TransitionLane
    /\ fibers[RootWip].lanes = TransitionLane
    /\ fibers[RootWip].updateQueue # RootQueue

\* C19 as stated: an enqueue while a render is in progress changes no field
\* of a fiber outside the current tree.
C19_Original ==
    [][ EnqueuesDuringRender =>
          \A fiber \in DOMAIN fibers \ CurrentTree :
             fibers'[fiber] = fibers[fiber] ]_vars

(***************************************************************************)
(* Properties of the traversal (SpecWalk).                                 *)
(***************************************************************************)
\* The depth-first walk of the tree below fiber: a fiber is begun, its
\* children are walked, the fiber is completed, its siblings are walked.
RECURSIVE DepthFirst(_, _, _)
DepthFirst(fs, fiber, fuel) ==
    IF fiber = Null \/ fuel = 0 THEN <<>>
    ELSE <<[op |-> "begin", fiber |-> fiber]>>
            \o DepthFirst(fs, fs[fiber].child, fuel - 1)
            \o <<[op |-> "complete", fiber |-> fiber]>>
            \o DepthFirst(fs, fs[fiber].sibling, fuel - 1)

RootCompleted == \E i \in DOMAIN gh.completed : fibers[gh.completed[i]].tag = HostRoot

\* C20: in a render without bailouts (SpecWalk has no throws), the work loop
\* has no unit of work left exactly when the root has been completed, and
\* the calls of beginWork and completeWork it has made by then are the
\* depth-first walk of the finished tree: every fiber is begun once, in
\* pre-order, and completed once, in post-order, after its children and
\* before its next sibling is begun.
C20_TraversalOrder ==
    (gh.trace # <<>> /\ ~gh.bailed) =>
       /\ wl.workInProgress = Null <=> RootCompleted
       /\ wl.workInProgress = Null =>
             /\ gh.trace = DepthFirst(fibers, RootFiber, Len(fibers))
             /\ Len(gh.begun) = Cardinality(CurrentTree)
             /\ Len(gh.completed) = Cardinality(CurrentTree)
             /\ \A i, j \in DOMAIN gh.begun : gh.begun[i] = gh.begun[j] => i = j
             /\ \A i, j \in DOMAIN gh.completed :
                   gh.completed[i] = gh.completed[j] => i = j

\* A render has walked a root whose component has two children, the first
\* with a child of its own: five fibers, the second child begun only after
\* the first and its child were completed.
C20_Witness ==
    /\ wl.workInProgress = Null
    /\ ~gh.bailed
    /\ Len(gh.trace) = 10
    /\ Cardinality(CurrentTree) = 5
    /\ gh.renders >= 2
    /\ \E f \in CurrentTree :
          /\ fibers[f].sibling # Null
          /\ fibers[f].child # Null
          /\ gh.trace[6] = [op |-> "complete", fiber |-> f]
          /\ gh.trace[7] = [op |-> "begin", fiber |-> fibers[f].sibling]

(***************************************************************************)
(* Safepoints of the concurrent render (SpecLoop).  gh.open holds the      *)
(* fibers whose unit of work was begun and has neither descended nor       *)
(* completed; each call of performWorkOnRoot records it as it is when the  *)
(* render function returns.                                                *)
(***************************************************************************)
ReturnsInProgress ==
    {c \in Calls : c.mode = "concurrent" /\ c.exitStatus = "RootInProgress"}

\* C21 as stated: whenever renderRootConcurrent returns RootInProgress, by
\* yielding or by suspending, no fiber is left whose unit of work was begun
\* and did not finish.
C21_Original ==
    \A c \in ReturnsInProgress : c.open = {}

\* C21, as amended: safepoints.  When renderRootConcurrent returns
\* RootInProgress by yielding, no fiber is left whose unit of work was begun
\* and did not finish; when it returns RootInProgress suspended, the one
\* such fiber is the unit whose beginWork threw, and it is the
\* workInProgress fiber the next entry replays or unwinds.
C21_Safepoints ==
    \A c \in ReturnsInProgress :
       /\ c.exitUnit # Null
       /\ c.open = IF c.exitReason = "NotSuspended" THEN {} ELSE {c.exitUnit}

\* A concurrent render has suspended on data: the unit that threw is the
\* one left open.
C21_Witness ==
    \E c \in ReturnsInProgress :
       /\ c.exitReason = "SuspendedOnData"
       /\ c.open = {c.exitUnit}

\* A concurrent render has yielded with work left and nothing open.
C21_YieldWitness ==
    \E c \in ReturnsInProgress :
       /\ c.exitReason = "NotSuspended"
       /\ c.open = {}

(***************************************************************************)
(* Properties of the root scheduler (SpecLoop, SpecRoots, SpecPair).       *)
(* gh.scheduled holds the calls of scheduleTaskForRootDuringMicrotask of   *)
(* the last action, in order.                                              *)
(***************************************************************************)
Scheduled == {gh.scheduled[i] : i \in DOMAIN gh.scheduled}

TasksOf(tasks, root) == {t \in tasks : t.root = root}

\* C23: at most one outstanding Scheduler callback per root.  No root has
\* two callbacks alive with the Scheduler, in any state and at the return
\* of any call of scheduleTaskForRootDuringMicrotask; and when such a call
\* replaces the handle stored in root.callbackNode by another handle or by
\* null, the callback of the handle it replaces is no longer alive.
C23_OneCallbackPerRoot ==
    /\ \A root \in DOMAIN roots : Cardinality(TasksOf(env.tasks, root)) <= 1
    /\ \A s \in Scheduled :
          /\ Cardinality(TasksOf(s.tasksAfter, s.root)) <= 1
          /\ (s.existingNode # Null /\ s.node # s.existingNode) =>
                \A t \in s.tasksAfter : t.node # s.existingNode

\* A call has replaced a live callback by a new one.
C23_Witness ==
    \E s \in Scheduled :
       /\ s.existingNode # Null /\ s.node # Null /\ s.node # s.existingNode
       /\ \E t \in s.tasksBefore : t.node = s.existingNode
       /\ \E t \in s.tasksAfter : t.node = s.node

\* A call has replaced a live callback by none.
C23_CancelWitness ==
    \E s \in Scheduled :
       /\ s.existingNode # Null /\ s.node = Null
       /\ \E t \in s.tasksBefore : t.node = s.existingNode

Range(seq) == {seq[i] : i \in DOMAIN seq}

ListIntact(w) ==
    LET list == ScheduledList(w)
    IN  /\ Len(list) <= Len(w.roots)
        /\ \A i, j \in DOMAIN list : i # j => list[i] # list[j]
        /\ IF list = <<>> THEN w.rs.lastScheduledRoot = Null
           ELSE /\ list[Len(list)] = w.rs.lastScheduledRoot
                /\ w.roots[w.rs.lastScheduledRoot].next = Null
        /\ \A root \in DOMAIN w.roots \ Range(list) : w.roots[root].next = Null

\* C24: scheduled-root list integrity.  In every state the list from
\* firstScheduledRoot following next is finite and acyclic, holds each root
\* at most once and ends at lastScheduledRoot, and every root outside it
\* has next = null; ensureRootIsScheduled called on a root of the list
\* leaves the list as it is.
C24_ScheduledListIntegrity ==
    /\ ListIntact(World)
    /\ \A root \in Range(ScheduledList(World)) :
          /\ ScheduledList(ensureRootIsScheduled(World, root)) = ScheduledList(World)
          /\ ListIntact(ensureRootIsScheduled(World, root))

\* What the call is to do, by the lanes of the root and the state of the
\* work loop when it is made.
HasNoWork(s) == s.nextLanes = NoLanes \/ s.suspendedOnData \/ s.pendingCommit

WantsSync(s) == HasLane(s.nextLanes, SyncLane) /\ ~s.prerendering

CancelsExisting(s) ==
    s.tasksAfter = {t \in s.tasksBefore : t.node # s.existingNode}

TakesSyncBranch(s) ==
    /\ CancelsExisting(s)
    /\ s.node = Null
    /\ s.priority = SyncLane
    /\ s.ret = SyncLane

\* C26 as stated: whenever the next lanes of a root include SyncLane and the
\* root is not prerendering, the call cancels the callback in place, leaves
\* callbackNode null and callbackPriority SyncLane, schedules no task and
\* returns SyncLane.
C26_Original ==
    \A s \in Scheduled : WantsSync(s) => TakesSyncBranch(s)

\* C26, as amended: the sync branch of the root scheduler.  When the next
\* lanes of a root include SyncLane, the root is not prerendering, and the
\* root is neither the work-in-progress root suspended on data nor has a
\* pending commit, scheduleTaskForRootDuringMicrotask cancels the callback
\* in place, leaves callbackNode null and callbackPriority SyncLane,
\* schedules no task and returns SyncLane.
C26_SyncBranch ==
    \A s \in Scheduled : (WantsSync(s) /\ ~HasNoWork(s)) => TakesSyncBranch(s)

\* A call has taken the sync branch for a root that had a callback with the
\* Scheduler.
C26_Witness ==
    \E s \in Scheduled :
       /\ WantsSync(s) /\ ~HasNoWork(s)
       /\ \E t \in s.tasksBefore : t.node = s.existingNode
       /\ TakesSyncBranch(s)

\* The calls of the while of processRootScheduleInMicrotask, in order.
Walk == [i \in 1..gh.walk.logged |-> gh.scheduled[i]]

Kept == SelectSeq(Walk, LAMBDA s : ~HasNoWork(s))

\* C27: the no-work branch of the root scheduler.  When a root has no next
\* lanes, or is the work-in-progress root suspended on data, or has a
\* pending commit, scheduleTaskForRootDuringMicrotask cancels the callback
\* in place, sets callbackNode to null and callbackPriority to NoLane and
\* returns NoLane; processRootScheduleInMicrotask calls it once for each
\* root of the list, in order, and the list after its while is the list
\* before it without those roots, the others in their order.
C27_NoWorkBranch ==
    /\ \A s \in Scheduled :
          HasNoWork(s) => /\ CancelsExisting(s)
                          /\ s.node = Null
                          /\ s.priority = NoLane
                          /\ s.ret = NoLane
    /\ gh.walk.logged = Len(gh.walk.before)
    /\ \A i \in DOMAIN Walk : Walk[i].root = gh.walk.before[i]
    /\ gh.walk.after = [i \in DOMAIN Kept |-> Kept[i].root]

\* The second of three scheduled roots had no work left and has been taken
\* out of the list, between the two others.
C27_Witness ==
    /\ Len(gh.walk.before) = 3
    /\ HasNoWork(Walk[2]) /\ ~HasNoWork(Walk[1]) /\ ~HasNoWork(Walk[3])
    /\ gh.walk.after = <<gh.walk.before[1], gh.walk.before[3]>>

\* gh.flushed holds the roots the sync flush has looked at in the last
\* action, gh.passes its passes over the list, gh.flushes the calls of
\* flushSyncWorkAcrossRoots_impl.  The flush has performed sync work on a
\* root it looked at when performWorkOnRoot has been called for the root,
\* with the lanes found and forceSync, before it looked at the next.
Flushed == {gh.flushed[i] : i \in DOMAIN gh.flushed}

Performed(f) ==
    \E i \in (f.callsBefore + 1)..f.callsAfter :
       /\ gh.calls[i].root = f.root
       /\ gh.calls[i].lanes = f.nextLanes
       /\ gh.calls[i].forceSync

LookedAt(p) == [i \in 1..(p.to - p.from) |-> gh.flushed[p.from + i]]

Flushes == {gh.flushes[i] : i \in DOMAIN gh.flushes}

PassesOf(c) == [i \in 1..(c.passesAfter - c.passesBefore) |->
                  gh.passes[c.passesBefore + i]]

\* C29: flushSyncWorkAcrossRoots is non-reentrant and runs to a fixpoint.
\* A call made while isFlushingWork is true performs no work and makes no
\* pass; a call made while it is false and sync work may be pending makes
\* passes over the list until one performs no sync work: every pass but
\* its last performs some, its last performs none; and isFlushingWork is
\* false when it returns.
C29_FlushFixpoint ==
    /\ ~rs.isFlushingWork
    /\ \A c \in Flushes :
          IF c.flushing
          THEN /\ c.callsAfter = c.callsBefore
               /\ c.passesAfter = c.passesBefore
          ELSE /\ ~c.flushingAfter
               /\ c.mightHavePendingSyncWork =>
                     /\ PassesOf(c) # <<>>
                     /\ \A i \in DOMAIN PassesOf(c) :
                           LET p == PassesOf(c)[i]
                               worked == \E j \in DOMAIN LookedAt(p) :
                                            Performed(LookedAt(p)[j])
                           IN  /\ p.didPerformSomeWork = worked
                               /\ worked <=> i < Len(PassesOf(c))

\* A flush that has made two passes, the first of which has performed sync
\* work during which a commit callback has asked for a flush.
C29_Witness ==
    /\ \E c \in Flushes : ~c.flushing /\ Len(PassesOf(c)) = 2
    /\ \E c \in Flushes : c.flushing /\ c.mightHavePendingSyncWork

\* Two roots are scheduled, in an order that is not the order of their
\* creation, and one of them has been updated when it was in the list.
C24_Witness ==
    /\ ScheduledList(World) = <<3, 1>>
    /\ gh.enq = 3
    /\ env.microtask = 1

\* C25: microtask coalescing.  At most one root-schedule microtask is armed
\* at any time, and one is armed exactly while didScheduleMicrotask is set:
\* the calls of ensureRootIsScheduled between two runs of
\* processRootScheduleInMicrotask arm one microtask together, and another
\* is armed only after a run has cleared the flag.
C25_MicrotaskCoalescing ==
    env.microtask = IF rs.didScheduleMicrotask THEN 1 ELSE 0

\* Three updates of three roots before any microtask has run.
C25_Witness ==
    /\ gh.enq = 3
    /\ Len(ScheduledList(World)) = 3
    /\ env.microtask = 1
    /\ env.hostMutations = 0 /\ env.tasks = {}

(***************************************************************************)
(* Properties of the flag constants (SpecFlags).                           *)
(***************************************************************************)
RECURSIVE IsSingleBit(_)
IsSingleBit(n) ==
    IF n <= 0 THEN FALSE
    ELSE IF n = 1 THEN TRUE
    ELSE n % 2 = 0 /\ IsSingleBit(n \div 2)

\* C22: every flag constant that is not an alias of another occupies one
\* binary bit, and no two of them share a bit; so a fiber tests positive
\* for a flag exactly when it has been marked with that flag and not
\* cleared of it.
C22_FlagBitsUnique ==
    /\ \A a \in DOMAIN FlagBits : IsSingleBit(FlagBits[a])
    /\ \A a, b \in DOMAIN FlagBits :
          a # b => BitAnd(FlagBits[a], FlagBits[b]) = NoFlags
    /\ \A a \in DOMAIN FlagBits :
          hasFlag(World, roots[TheRoot].current, FlagBits[a]) <=> a \in gh.marked

\* A fiber marked with PlacementDEV only tests positive for MountLayoutDev.
C22_Witness ==
    /\ gh.marked = {"PlacementDEV"}
    /\ hasFlag(World, roots[TheRoot].current, MountLayoutDev)


\* The walk met the work-in-progress root suspended on data, with lanes
\* still pending, and took it out of the list.
C27_SuspendedWitness ==
    /\ gh.walk.logged > 0
    /\ \E i \in DOMAIN Walk :
         /\ Walk[i].suspendedOnData
         /\ Walk[i].nextLanes # NoLanes
         /\ Walk[i].ret = NoLane
    /\ gh.walk.after = <<>>

(***************************************************************************)
(* C30: after processUpdateQueue has walked a non-empty base list, the     *)
(* lanes it stored on the work-in-progress fiber are the union of the      *)
(* lanes, without OffscreenLane, of the updates it skipped in that pass,   *)
(* and they are NoLanes exactly when it skipped none.                      *)
(***************************************************************************)
RECURSIVE UnionOfSkipped(_)
UnionOfSkipped(lanes) ==
    IF lanes = <<>> THEN NoLanes
    ELSE mergeLanes(removeLanes(Head(lanes), OffscreenLane),
                    UnionOfSkipped(Tail(lanes)))

C30_SkippedLanesReported ==
    \A i \in DOMAIN gh.store :
      /\ gh.store[i].lanes = UnionOfSkipped(gh.store[i].skipped)
      /\ (gh.store[i].lanes = NoLanes) <=> (gh.store[i].skipped = <<>>)

\* A pass skipped an update staged in a hidden tree and one staged in a
\* visible one.
C30_Witness ==
    /\ gh.store # <<>>
    /\ \E j \in DOMAIN gh.store[1].skipped :
         gh.store[1].skipped[j] = mergeLanes(TransitionLane, OffscreenLane)
    /\ \E j \in DOMAIN gh.store[1].skipped :
         gh.store[1].skipped[j] = TransitionLane
    /\ gh.store[1].lanes = TransitionLane

\* A pass walked a base list and skipped nothing.
C30_NoneSkippedWitness ==
    /\ gh.store # <<>>
    /\ gh.store[1].skipped = <<>>
    /\ gh.applied # <<>>
    /\ gh.store[1].lanes = NoLanes


(***************************************************************************)
(* The shape of the base list a pass of processUpdateQueue leaves.         *)
(* gh.steps holds what each turn of the loop met, gh.store what the pass   *)
(* stored when it had walked a non-empty list.                             *)
(***************************************************************************)
FirstSkip(steps) ==
    IF \E i \in DOMAIN steps : steps[i].skipped
    THEN CHOOSE i \in DOMAIN steps :
            steps[i].skipped /\ \A j \in 1..(i - 1) : ~steps[j].skipped
    ELSE 0

\* Source and lane of the updates from the first skipped one on; a skipped
\* update with the lane kept(lane), an applied one with NoLane.
RebasedWith(steps, offscreenKept) ==
    LET k == FirstSkip(steps)
    IN  IF k = 0 THEN <<>>
        ELSE [i \in 1..(Len(steps) - k + 1) |->
                LET st == steps[k + i - 1]
                IN  [src |-> st.src,
                     lane |-> IF ~st.skipped THEN NoLane
                              ELSE IF offscreenKept THEN st.lane
                              ELSE removeLanes(st.lane, OffscreenLane)]]

SrcAndLane(base) == [i \in DOMAIN base |-> [src |-> base[i].src, lane |-> base[i].lane]]

RebaseShape(offscreenKept) ==
    \A n \in DOMAIN gh.store :
       LET st == gh.store[n]
           k == FirstSkip(gh.steps)
       IN  /\ SrcAndLane(st.base) = RebasedWith(gh.steps, offscreenKept)
           /\ k # 0 => st.baseState = gh.steps[k].state
           /\ k = 0 => st.baseState = st.memoizedState /\ st.base = <<>>

\* C31 as stated: after processUpdateQueue the new base list is the clones
\* of the updates from the first skipped one to the end of the processed
\* list, in order; a skipped update keeps its lane, an applied one has
\* NoLane; baseState is the state computed just before the first skipped
\* update, and is memoizedState, with an empty base list, when nothing was
\* skipped.
C31_Original == RebaseShape(TRUE)

\* C31, as amended: the same, but the clone of a skipped update has the
\* lane of the update without OffscreenLane.
C31_RebaseListShape == RebaseShape(FALSE)

\* A pass has applied an update, skipped one staged in a hidden tree, and
\* applied one after it: the base list holds the last two.
C31_Witness ==
    /\ gh.store # <<>>
    /\ Len(gh.steps) >= 3
    /\ FirstSkip(gh.steps) = 2
    /\ gh.steps[2].lane = mergeLanes(TransitionLane, OffscreenLane)
    /\ \E i \in 3..Len(gh.steps) : ~gh.steps[i].skipped
    /\ Len(gh.store[1].base) = Len(gh.steps) - 1
    /\ gh.store[1].base[1].lane = TransitionLane
    /\ gh.store[1].baseState # gh.store[1].memoizedState


(***************************************************************************)
(* The callbacks of a pass.  gh.called holds the updates whose callback    *)
(* the pass appended to queue.callbacks, gh.fired the updates whose        *)
(* callback a commit has run, gh.done the updates applied by a pass that   *)
(* was committed.                                                          *)
(***************************************************************************)
WithCallback(steps) ==
    SelectSeq(steps, LAMBDA st : ~st.skipped /\ st.callback # Null)

CallbacksOf(steps) == [i \in DOMAIN steps |-> steps[i].callback]

\* C32: commit callbacks fire once.  A pass appends to queue.callbacks the
\* callbacks of the updates it applies, in order, and sets the Callback
\* flag on the work-in-progress fiber when there is one; the clone of a
\* skipped update keeps the callback and the clone of an applied update
\* has none, so over the passes that are committed the callback of an
\* update runs in the commit of the pass that first applies it and in no
\* other.
C32_CallbacksFireOnce ==
    /\ \A n \in DOMAIN gh.store :
          LET st == gh.store[n]
              k == FirstSkip(gh.steps)
          IN  /\ st.callbacks = CallbacksOf(WithCallback(gh.steps))
              /\ gh.called = [i \in DOMAIN WithCallback(gh.steps) |->
                                WithCallback(gh.steps)[i].src]
              /\ (BitAnd(st.flags, Callback) # NoFlags) <=> st.callbacks # <<>>
              /\ \A i \in DOMAIN st.base :
                    st.base[i].callback =
                        IF gh.steps[k + i - 1].skipped
                        THEN gh.steps[k + i - 1].callback ELSE Null
    /\ \A i, j \in DOMAIN gh.fired : i # j => gh.fired[i] # gh.fired[j]
    /\ Range(gh.fired) = {src \in gh.done : updates[src].callback # Null}
    /\ env.callbacksRun = [i \in DOMAIN gh.fired |-> updates[gh.fired[i]].callback]

\* A pass is applying again, from its clone, an update whose callback ran
\* in an earlier commit.
C32_Witness ==
    /\ gh.store # <<>>
    /\ gh.processed
    /\ \E i \in DOMAIN gh.steps :
         /\ ~gh.steps[i].skipped
         /\ gh.steps[i].src \in Range(gh.fired)
         /\ gh.steps[i].callback = Null
         /\ updates[gh.steps[i].src].callback # Null
    /\ gh.store[1].callbacks = <<>>


(***************************************************************************)
(* SpecBegin: the begin phase.  The container shows a component with a     *)
(* child, or a leaf; event handlers replace the element, components of    *)
(* the current tree schedule updates on themselves, renders start, are     *)
(* abandoned or proceed one unit of work at a time and commit.  Each unit  *)
(* is begun with a legacy context that has changed or not, and with the    *)
(* DidCapture flag of a boundary's second pass or the legacy-Suspense      *)
(* flag on the current fiber or neither.  gh.begin holds what the last     *)
(* call of beginWork was given and what it left.                           *)
(***************************************************************************)
MaxBeginUpdates == 1
MaxBeginRenders == 2

BeginRenderLanes == {SyncLane, mergeLanes(SyncLane, TransitionLane)}

\* What the unit is begun with.
BeginInputs ==
    [contextChanged : BOOLEAN, didCapture : BOOLEAN, force : BOOLEAN]

InitBegin == Is(createFiberRoot(EmptyWorld(FiberShape)).w)

\* An event handler replaces the element of the container.
BSetState ==
    /\ gh.enq < MaxBeginUpdates
    /\ \E e \in FiberEvents :
         Becomes(setState(World, roots[TheRoot].current, e.inp, e.lane))

\* A component of the current tree schedules an update on itself: its lane
\* is merged into the fiber and its alternate and marked up to the root.
BSchedule ==
    /\ wl.workInProgress = Null
    /\ \E fiber \in CurrentTree \ {roots[TheRoot].current},
          lane \in {SyncLane, TransitionLane} :
         /\ ~includesSomeLane(fibers[fiber].lanes, lane)
         /\ Becomes(markRootUpdated(
                        markUpdateLaneFromFiberToRoot(World, fiber, lane),
                        TheRoot, lane))

\* A render of the given lanes starts; a render in progress is abandoned.
BRender ==
    /\ gh.renders < MaxBeginRenders
    /\ \E lanes \in BeginRenderLanes :
         Becomes([prepareFreshStack(World, TheRoot, lanes).w
                    EXCEPT !.gh.renders = @ + 1])

\* The world in which the unit is begun.
BeginWith(w, unitOfWork, in) ==
    LET current == w.fibers[unitOfWork].alternate
        w1 == [w EXCEPT !.wl.executionContext = RenderContext,
                        !.env.legacyContextChanged = in.contextChanged,
                        !.gh.bailed = FALSE]
        w2 == IF in.didCapture
              THEN [w1 EXCEPT !.fibers[unitOfWork].flags = BitOr(@, DidCapture)]
              ELSE w1
    IN  IF in.force /\ current # Null
        THEN [w2 EXCEPT !.fibers[current].flags =
                            BitOr(@, ForceUpdateForLegacySuspense)]
        ELSE w2

\* What beginWork was given (read in w0) and what it left (read in w1).
BeginRecord(w0, w1, unitOfWork) ==
    LET current == w0.fibers[unitOfWork].alternate
        renderLanes == w0.wl.entangledRenderLanes
    IN  [fiber |-> unitOfWork,
         tag |-> w0.fibers[unitOfWork].tag,
         mount |-> current = Null,
         propsSame |-> current # Null
                       /\ w0.fibers[current].memoizedProps
                             = w0.fibers[unitOfWork].pendingProps,
         contextChanged |-> w0.env.legacyContextChanged,
         scheduled |-> current # Null
                       /\ includesSomeLane(w0.fibers[current].lanes, renderLanes),
         didCapture |-> BitAnd(w0.fibers[unitOfWork].flags, DidCapture) # NoFlags,
         force |-> current # Null
                   /\ BitAnd(w0.fibers[current].flags,
                             ForceUpdateForLegacySuspense) # NoFlags,
         lanesBefore |-> w0.fibers[unitOfWork].lanes,
         bailed |-> w1.gh.bailed,
         lanesAfter |-> w1.fibers[unitOfWork].lanes,
         didReceiveUpdate |-> w1.wl.didReceiveUpdate]

\* One unit of work; the unit that completes the tree commits it.
BWork ==
    /\ wl.workInProgress # Null
    /\ \E in \in BeginInputs :
         LET lanes == wl.workInProgressRootRenderLanes
             unitOfWork == wl.workInProgress
         IN  \E w0 \in {BeginWith(World, unitOfWork, in)} :
               \E w1 \in {performUnitOfWork(w0, unitOfWork, NoBehaviour).w} :
                 \E w2 \in {[w1 EXCEPT
                                !.wl.executionContext = NoContext,
                                !.env.legacyContextChanged = FALSE,
                                !.gh.begin = <<BeginRecord(w0, w1, unitOfWork)>>]} :
                   IF w2.wl.workInProgress # Null
                   THEN Becomes(w2)
                   ELSE Becomes(commitRoot(finishRender(w2), TheRoot,
                                           w2.fibers[w2.roots[TheRoot].current].alternate,
                                           lanes))

NextBegin == BSetState \/ BSchedule \/ BRender \/ BWork

SpecBegin == InitBegin /\ [][NextBegin]_vars

Begun == {gh.begin[i] : i \in DOMAIN gh.begin}

BailsOut(b) ==
    /\ ~b.mount /\ b.propsSame /\ ~b.contextChanged
    /\ ~b.scheduled /\ ~b.didCapture

\* C33: the early bailout condition.  beginWork takes the early bailout,
\* leaving workInProgress.lanes as they were and dispatching on no tag,
\* exactly when the fiber has a current, the props are identical, legacy
\* context has not changed, no update is scheduled on the fiber within the
\* render lanes and DidCapture is not set; otherwise it clears the lanes
\* before the handler runs.  On a mount it never bails out.
C33_EarlyBailout ==
    \A b \in Begun :
       /\ b.bailed <=> BailsOut(b)
       /\ b.bailed => b.lanesAfter = b.lanesBefore
       /\ (~b.bailed /\ b.tag # HostRoot) => b.lanesAfter = NoLanes
       /\ b.mount => ~b.bailed

\* A component with a transition update pending has bailed out of a sync
\* render and kept its lanes.
C33_Witness ==
    \E b \in Begun :
       /\ b.bailed /\ b.tag # HostRoot
       /\ b.lanesBefore = TransitionLane
       /\ b.lanesAfter = TransitionLane

\* A component with unchanged props and no update has not bailed out,
\* because DidCapture was set.
C33_CaptureWitness ==
    \E b \in Begun :
       /\ ~b.bailed /\ b.propsSame /\ ~b.scheduled /\ ~b.contextChanged
       /\ b.didCapture

\* C34 as stated: whenever beginWork does not take the early bailout for a
\* fiber that has a current, didReceiveUpdate is true when the handler
\* runs.
C34_Original ==
    \A b \in Begun : (~b.mount /\ ~b.bailed) => b.didReceiveUpdate

\* C34, as amended: when beginWork does not take the early bailout for a
\* fiber that has a current, didReceiveUpdate is true when the handler
\* runs exactly when the props or legacy context have changed or the
\* current fiber has ForceUpdateForLegacySuspense; it is false when the
\* fiber was begun only for an update scheduled on it or for DidCapture.
C34_DidReceiveUpdate ==
    \A b \in Begun :
       /\ (~b.mount /\ ~b.bailed) =>
             (b.didReceiveUpdate <=> (~b.propsSame \/ b.contextChanged \/ b.force))
       /\ (b.mount \/ b.bailed) => ~b.didReceiveUpdate

\* A component was begun for an update scheduled on it, with the props it
\* had: didReceiveUpdate is false.
C34_Witness ==
    \E b \in Begun :
       /\ ~b.mount /\ ~b.bailed /\ b.tag # HostRoot
       /\ b.propsSame /\ b.scheduled /\ ~b.contextChanged /\ ~b.force
       /\ ~b.didReceiveUpdate

(***************************************************************************)
(* Properties of the synchronous render (SpecSync).                        *)
(***************************************************************************)
\* C39: when renderRootSync returns and the root is not prerendering,
\* workInProgress is null, workInProgressRoot is null,
\* workInProgressRootRenderLanes is NoLanes and the status returned is not
\* RootInProgress, whatever was thrown during the render.
C39_SyncRenderNeverYields ==
    \A c \in Calls :
      (c.mode = "sync" /\ ~c.exitPrerendering) =>
        /\ c.exitUnit = Null
        /\ c.exitRoot = Null
        /\ c.exitLanes = NoLanes
        /\ c.exitStatus # "RootInProgress"

\* A synchronous render of a root that is not prerendering unwound the
\* unit that waited for data and returned with nothing in progress.
C39_Witness ==
    \E c \in Calls :
      /\ c.mode = "sync" /\ ~c.exitPrerendering /\ ~c.prerendering
      /\ c.unwound /\ env.thenable = "pending"
      /\ c.begunAfter # <<>>
      /\ c.exitUnit = Null /\ c.exitRoot = Null /\ c.exitLanes = NoLanes
      /\ c.exitStatus # "RootInProgress" /\ c.exitStatus # "RootCompleted"

(***************************************************************************)
(* Properties of the callback of a root (SpecSync).                        *)
(***************************************************************************)
\* The call took the branch of lines 108-115.
TookSyncBranch(s) ==
    /\ includesSyncLane(s.nextLanes)
    /\ ~(env.enableSiblingPrerendering /\ s.prerendering)

\* The root has a callback the Scheduler still holds.
HasLiveTask(s) ==
    /\ s.node # Null
    /\ \E task \in s.tasksAfter : task.node = s.node /\ task.root = s.root

\* C37: when scheduleTaskForRootDuringMicrotask returns a lane other than
\* NoLane from the branch of the Scheduler callback, root.callbackNode is a
\* callback the Scheduler holds for the root.
C37_AsyncRootHasTask ==
    \A s \in Scheduled :
      (s.ret # NoLane /\ ~TookSyncBranch(s)) => HasLiveTask(s)

\* The call found the priority SyncLane and no callback, left by the branch
\* of lines 108-115 in an earlier call, selected the Sync lane for a
\* prerender, and returned SyncLane with no callback scheduled.
LeftWithoutTask(s) ==
    /\ s.existingPriority = SyncLane /\ s.existingNode = Null
    /\ includesSyncLane(s.nextLanes) /\ s.prerendering
    /\ ~TookSyncBranch(s)
    /\ s.ret = SyncLane /\ s.priority = SyncLane
    /\ s.node = Null /\ s.tasksAfter = {}

\* The root is left with the Sync lane pending and suspended, the priority
\* SyncLane and neither a callback nor a microtask.
C37_Witness ==
    /\ \E s \in Scheduled : LeftWithoutTask(s)
    /\ includesSyncLane(roots[TheRoot].pendingLanes)
    /\ roots[TheRoot].callbackPriority = SyncLane
    /\ roots[TheRoot].callbackNode = Null
    /\ env.tasks = {} /\ env.microtask = 0

\* The same while the data a synchronous render waits for is pending.
C37_DataWitness == C37_Witness /\ env.thenable = "pending"

(***************************************************************************)
(* Properties of the flag mightHavePendingSyncWork (SpecRoots).            *)
(***************************************************************************)
\* C38: whenever flushSyncWorkAcrossRoots_impl is entered while a root of
\* the schedule has next lanes that include SyncLane and is not
\* prerendering, mightHavePendingSyncWork is true.
C38_SyncWorkFlagSound ==
    \A f \in Flushes : f.syncRoots # {} => f.mightHavePendingSyncWork

\* The microtask had reset the flag, the walk of the schedule set it again
\* for the second of two roots with Sync work, and the flush rendered both.
C38_Witness ==
    \E f \in Flushes :
      /\ Cardinality(f.syncRoots) >= 2 /\ f.mightHavePendingSyncWork
      /\ ~f.flushing /\ f.callsAfter >= f.callsBefore + 2
      /\ gh.walk.before # <<>>

(***************************************************************************)
(* Properties of the execution context (SpecSync).                         *)
(***************************************************************************)
\* C40: RenderContext is set in executionContext while renderRootConcurrent
\* and renderRootSync run, on every return from them executionContext is
\* what it was at entry, and no later performWorkOnRoot is rejected as
\* nested.
C40_ContextRestored ==
    /\ \A c \in Calls :
         c.mode # NoValue =>
           /\ c.exitContext = c.entryContext
           /\ c.unitContexts \subseteq {BitOr(c.entryContext, RenderContext)}
    /\ gh.thrown # AlreadyWorkingError
    /\ wl.executionContext = NoContext

\* A flush inside batchedUpdates rendered twice: a synchronous render that
\* unwound a unit and did not complete returned with the context of the
\* batch, and so did the render after it.
C40_Witness ==
    \E i, j \in DOMAIN gh.calls :
      /\ i < j
      /\ gh.calls[i].entryContext = BatchedContext
      /\ gh.calls[i].unwound /\ gh.calls[i].exitStatus # "RootCompleted"
      /\ gh.calls[i].unitContexts = {BitOr(BatchedContext, RenderContext)}
      /\ gh.calls[i].exitContext = BatchedContext
      /\ gh.calls[j].mode # NoValue
      /\ gh.calls[j].exitContext = BatchedContext

\* A time-sliced render yielded and returned with the context of its entry.
C40_YieldWitness ==
    \E c \in Calls :
      /\ c.mode = "concurrent" /\ c.exitStatus = "RootInProgress"
      /\ c.unitContexts = {RenderContext} /\ c.exitContext = NoContext
====
